---------------------------- MODULE Spec2Model ----------------------------
(***************************************************************************)
(* A model of pyhiera's resolution engine (src/pyhiera/hiera.py and        *)
(* src/pyhiera/backends.py): the key-model, key and backend registries,    *)
(* level-template expansion, the YAML backend's read and write, the        *)
(* first-match lookup key_data_get, the merge-all lookup                   *)
(* key_data_get_merge and the deep merge _key_data_get_merge.              *)
(*                                                                         *)
(* Python values are tagged records, so that values of different Python    *)
(* types are never equal:                                                  *)
(*   StrV(s), IntV(i), NoneV, ListV(q), SetV(e), DictV(d), ModelV(m)       *)
(* A dict is a function from field names to values, a list a sequence of   *)
(* values, a set a set of values; a pydantic model instance (the typed     *)
(* data of a structured schema) is ModelV(m), m a function from the        *)
(* schema's field names to values.                                         *)
(*                                                                         *)
(* An exception is the record an operation returns instead of a value:     *)
(*   PyHieraError, PyHieraBackendError (a subclass of PyHieraError), or a  *)
(*   builtin Python exception (TypeError, AttributeError, ValueError)      *)
(*   that no handler of the library catches, written BuiltinError.  The    *)
(*   message is a tuple: its fixed text and the names it mentions.         *)
(***************************************************************************)
EXTENDS Integers, Sequences, FiniteSets, TLC

VARIABLES
    _models,         \* PyHieraKeyModels._models: model name -> key class
    _keys,           \* PyHieraKeys._keys: key name -> key class of its instance
    _backends_dict,  \* PyHieraBackendsBase._backends_dict, in insertion order
    _backends_list,  \* PyHieraBackendsBase._backends_list
    files,           \* the YAML files: base path -> level -> (key -> value)
    last             \* the outcome of the last call on the resolver

vars == <<_models, _keys, _backends_dict, _backends_list, files, last>>

---------------------------------------------------------------------------
(* Python values *)

StrV(s) == [k |-> "str", s |-> s]

IntV(i) == [k |-> "int", i |-> i]

NoneV == [k |-> "none"]

ListV(q) == [k |-> "list", q |-> q]

SetV(e) == [k |-> "set", e |-> e]

TupleV(q) == [k |-> "tuple", q |-> q]

DictV(d) == [k |-> "dict", d |-> d]

ModelV(m) == [k |-> "model", m |-> m]

(* The function with no argument: an empty dict, an empty file *)
EmptyMap == [f \in {} |-> NoneV]

EmptyDict == DictV(EmptyMap)

IsDict(v) == v.k = "dict"

(* Exceptions, by class and message *)
Raise(exc, msg) == [k |-> "raise", exc |-> exc, msg |-> msg]

IsRaise(v) == v.k = "raise"

BuiltinError == Raise("BuiltinError", <<>>)

PyHieraError(msg) == Raise("PyHieraError", msg)

PyHieraBackendError(msg) == Raise("PyHieraBackendError", msg)

(* yaml.YAMLError, which is no PyHieraError *)
YAMLError == Raise("YAMLError", <<>>)

---------------------------------------------------------------------------
(* PyHieraBase._key_data_get_merge(update, result): the deep merge.        *)
(* `result` is the accumulator; it is a dict at the top call and whatever  *)
(* result.setdefault(key, {}) returns in a recursive call.  The fields of  *)
(* `update` are visited one by one and each touches result[key] only, so   *)
(* the outcome is computed field by field.  Any item assignment, `in`      *)
(* test, .setdefault, .extend or .update on an accumulator of the wrong    *)
(* type raises a builtin exception, which aborts the merge.                *)

RECURSIVE _key_data_get_merge(_, _)

(* One iteration of the loop body: the new result[key], given the update's *)
(* value and whether and what result[key] held.                            *)
MergeItemWrongOrder(value, present, old) ==
    CASE value.k = "dict" ->
            _key_data_get_merge(value, IF present THEN old ELSE EmptyDict)
      [] value.k = "list" ->
            IF present
            THEN IF old.k = "list" THEN ListV(value.q \o old.q) ELSE BuiltinError
            ELSE value
      [] value.k = "set" ->
            IF present
            THEN CASE old.k = "set" -> SetV(old.e \cup value.e)
                   [] old.k = "dict" /\ value.e = {} -> old
                   [] OTHER -> BuiltinError
            ELSE value
      [] OTHER -> value

MergeItemKeepOld(value, present, old) ==
    CASE value.k = "dict" ->
            _key_data_get_merge(value, IF present THEN old ELSE EmptyDict)
      [] value.k = "list" ->
            IF present
            THEN IF old.k = "list" THEN ListV(old.q \o value.q) ELSE BuiltinError
            ELSE value
      [] value.k = "set" ->
            IF present
            THEN CASE old.k = "set" -> SetV(old.e \cup value.e)
                   [] old.k = "dict" /\ value.e = {} -> old
                   [] OTHER -> BuiltinError
            ELSE value
      [] OTHER -> IF present THEN old ELSE value

MergeItemReplace(value, present, old) ==
    CASE value.k = "dict" ->
            _key_data_get_merge(value, IF present THEN old ELSE EmptyDict)
      [] OTHER -> value

MergeItem(value, present, old) ==
    CASE value.k = "dict" ->
            \* result.setdefault(key, {}) and the recursive call on it
            _key_data_get_merge(value, IF present THEN old ELSE EmptyDict)
      [] value.k = "list" ->
            IF present
            THEN \* result[key].extend(value)
                 IF old.k = "list" THEN ListV(old.q \o value.q) ELSE BuiltinError
            ELSE value  \* value.copy()
      [] value.k = "set" ->
            IF present
            THEN \* result[key].update(value): set union; dict.update of an
                 \* empty iterable is a no-op, of elements that are no pairs
                 \* an exception (no set element of the model is a pair)
                 CASE old.k = "set" -> SetV(old.e \cup value.e)
                   [] old.k = "dict" /\ value.e = {} -> old
                   [] OTHER -> BuiltinError
            ELSE value  \* value.copy()
      [] OTHER -> value  \* result[key] = value

_key_data_get_merge(update, result) ==
    IF DOMAIN update.d = {}
    THEN result                        \* the loop body never runs
    ELSE IF result.k # "dict"
    THEN BuiltinError                  \* first access to a non-dict accumulator
    ELSE LET items == [f \in DOMAIN update.d |->
                          MergeItem(update.d[f], f \in DOMAIN result.d,
                                    IF f \in DOMAIN result.d THEN result.d[f] ELSE NoneV)]
         IN  IF \E f \in DOMAIN items : IsRaise(items[f])
             THEN BuiltinError
             ELSE DictV([f \in DOMAIN result.d \cup DOMAIN update.d |->
                           IF f \in DOMAIN update.d THEN items[f] ELSE result.d[f]])

---------------------------------------------------------------------------
(* The same merge on objects.  A dict, list or set is an object: it is     *)
(* created once and changed in place, and the same object can be held in   *)
(* several places.  An object carries its creator, `o`: the index in       *)
(* data_points of the data point whose data it belongs to, or 0 for an     *)
(* object the merge created (the {} of merged_data and of setdefault, the  *)
(* result of .copy()).  The merge returns the accumulator and the creators *)
(* of the objects it changed in place.                                     *)

RECURSIVE Owned(_, _)
Owned(v, o) ==
    CASE v.k = "dict" ->
            [k |-> "dict", o |-> o, d |-> [f \in DOMAIN v.d |-> Owned(v.d[f], o)]]
      [] v.k = "list" ->
            [k |-> "list", o |-> o, q |-> [i \in DOMAIN v.q |-> Owned(v.q[i], o)]]
      [] v.k = "set" -> [k |-> "set", o |-> o, e |-> v.e]
      [] OTHER -> v

(* {} *)
NewDict == [k |-> "dict", o |-> 0, d |-> EmptyMap]

(* An assignment of the value itself, without a copy *)
TheSameObject(value) == value

(* value.copy(): a new list or set that holds the elements of the old one, *)
(* the same objects                                                        *)
Copy(value) == [value EXCEPT !.o = 0]

RECURSIVE MergeObjects(_, _)

(* One iteration of the loop body for `key`: the object result[key] is     *)
(* afterwards, and the creators of the objects changed (a new entry of     *)
(* result changes result)                                                  *)
MergeObjectsItem(value, result, present, old) ==
    CASE value.k = "dict" ->
            IF present THEN MergeObjects(value, old)
            ELSE LET merged == MergeObjects(value, NewDict)
                 IN  IF IsRaise(merged) THEN merged
                     ELSE [merged EXCEPT !.changed = @ \cup {result.o}]
      [] value.k = "list" ->
            IF present
            THEN IF old.k = "list"
                 THEN [k |-> "merged", changed |-> {old.o},
                       obj |-> [old EXCEPT !.q = old.q \o value.q]]
                 ELSE BuiltinError
            ELSE [k |-> "merged", obj |-> Copy(value), changed |-> {result.o}]
      [] value.k = "set" ->
            IF present
            THEN CASE old.k = "set" ->
                        [k |-> "merged", changed |-> {old.o},
                         obj |-> [old EXCEPT !.e = old.e \cup value.e]]
                   [] old.k = "dict" /\ value.e = {} ->
                        [k |-> "merged", obj |-> old, changed |-> {}]
                   [] OTHER -> BuiltinError
            ELSE [k |-> "merged", obj |-> Copy(value), changed |-> {result.o}]
      [] OTHER -> [k |-> "merged", obj |-> value, changed |-> {result.o}]

MergeObjects(update, result) ==
    IF DOMAIN update.d = {}
    THEN [k |-> "merged", obj |-> result, changed |-> {}]
    ELSE IF result.k # "dict"
    THEN BuiltinError
    ELSE LET items == [f \in DOMAIN update.d |->
                          MergeObjectsItem(update.d[f], result, f \in DOMAIN result.d,
                                           IF f \in DOMAIN result.d THEN result.d[f]
                                                                    ELSE NoneV)]
         IN  IF \E f \in DOMAIN items : IsRaise(items[f])
             THEN BuiltinError
             ELSE [k |-> "merged", obj |-> [result EXCEPT !.d =
                               [f \in DOMAIN result.d \cup DOMAIN update.d |->
                                   IF f \in DOMAIN update.d THEN items[f].obj
                                                            ELSE result.d[f]]],
                   changed |-> UNION {items[f].changed : f \in DOMAIN items}]

(* merged_data = {}; for data_point in reversed(data_points): ... with the *)
(* data points n, n - 1, ..., 1 still to fold into the accumulator `acc`   *)
RECURSIVE FoldObjects(_, _, _)
FoldObjects(data_points, n, acc) ==
    IF n = 0 \/ IsRaise(acc) THEN acc
    ELSE LET merged == MergeObjects(Owned(data_points[n], n), acc.obj)
         IN  FoldObjects(data_points, n - 1,
                         IF IsRaise(merged) THEN merged
                         ELSE [k |-> "merged", obj |-> merged.obj,
                               changed |-> acc.changed \cup merged.changed])

(* The value of an object *)
RECURSIVE ValueOf(_)
ValueOf(v) ==
    CASE v.k = "dict" -> DictV([f \in DOMAIN v.d |-> ValueOf(v.d[f])])
      [] v.k = "list" -> ListV([i \in DOMAIN v.q |-> ValueOf(v.q[i])])
      [] v.k = "set" -> SetV(v.e)
      [] OTHER -> v

(* The creators of the objects held, at any depth, in an object *)
RECURSIVE OwnersIn(_)
OwnersIn(v) ==
    CASE v.k = "dict" -> {v.o} \cup UNION {OwnersIn(v.d[f]) : f \in DOMAIN v.d}
      [] v.k = "list" -> {v.o} \cup UNION {OwnersIn(v.q[i]) : i \in DOMAIN v.q}
      [] v.k = "set" -> {v.o}
      [] OTHER -> {}

---------------------------------------------------------------------------
(* Key classes and their pydantic models.                                  *)
(* PyHieraKeyString/Int/Float/Bool are the library's own (keys.py), bound  *)
(* to the names of DEFAULT_KEY_MODELS; PyHieraKeyDict (data: dict) and     *)
(* PyHieraKeyComplex (a structured model whose fields are all optional)    *)
(* are the two the test suite registers as "DynamicDict" and "Complex".    *)

DEFAULT_KEY_MODELS ==
    [n \in {"SimpleString", "SimpleInt", "SimpleFloat", "SimpleBool"} |->
        CASE n = "SimpleString" -> "PyHieraKeyString"
          [] n = "SimpleInt"    -> "PyHieraKeyInt"
          [] n = "SimpleFloat"  -> "PyHieraKeyFloat"
          [] n = "SimpleBool"   -> "PyHieraKeyBool"]

(* What a field validator returns for a value it rejects *)
Invalid == [k |-> "invalid"]

(* Optional[str]: an absent field takes the default None *)
OptionalStr(d, f) ==
    IF f \notin DOMAIN d THEN NoneV
    ELSE IF d[f].k \in {"none", "str"} THEN d[f] ELSE Invalid

(* Optional[set[str]]: pydantic (lax mode) also takes a list of str *)
OptionalSetOfStr(d, f) ==
    IF f \notin DOMAIN d THEN NoneV
    ELSE CASE d[f].k = "none" -> NoneV
           [] d[f].k = "set" ->
                IF \A x \in d[f].e : x.k = "str" THEN d[f] ELSE Invalid
           [] d[f].k = "list" ->
                IF \A i \in DOMAIN d[f].q : d[f].q[i].k = "str"
                THEN SetV({d[f].q[i] : i \in DOMAIN d[f].q})
                ELSE Invalid
           [] OTHER -> Invalid

(* PyHieraKeyDataComplexLevelB: blarg, other: Optional[str];               *)
(* blub: Optional[set[str]].  Fields the model does not declare are        *)
(* ignored (pydantic's default extra = "ignore").                          *)
PyHieraKeyDataComplexLevelB(v) ==
    IF v.k # "dict" THEN Invalid
    ELSE LET m == [f \in {"blarg", "other", "blub"} |->
                      IF f = "blub" THEN OptionalSetOfStr(v.d, f)
                                    ELSE OptionalStr(v.d, f)]
         IN  IF \E f \in DOMAIN m : m[f] = Invalid THEN Invalid ELSE ModelV(m)

(* PyHieraKeyDataComplexLevel: a: Optional[str];                           *)
(* b: Optional[PyHieraKeyDataComplexLevelB]                                *)
PyHieraKeyDataComplexLevel(v) ==
    IF v.k # "dict" THEN Invalid
    ELSE LET m == [f \in {"a", "b"} |->
                      IF f = "a" THEN OptionalStr(v.d, f)
                      ELSE IF f \notin DOMAIN v.d \/ v.d[f].k = "none" THEN NoneV
                      ELSE PyHieraKeyDataComplexLevelB(v.d[f])]
         IN  IF \E f \in DOMAIN m : m[f] = Invalid THEN Invalid ELSE ModelV(m)

(* key_models.py, PyHieraKeyModelComplexLevelB: blarg: str, a field that   *)
(* is required                                                             *)
PyHieraKeyModelComplexLevelB(v) ==
    IF v.k # "dict" THEN Invalid
    ELSE IF "blarg" \in DOMAIN v.d /\ v.d["blarg"].k = "str"
    THEN ModelV([blarg |-> v.d["blarg"]])
    ELSE Invalid

(* key_models.py, PyHieraKeyModelComplexLevel: a: str;                     *)
(* b: PyHieraKeyModelComplexLevelB, both required                          *)
PyHieraKeyModelComplexLevel(v) ==
    IF v.k # "dict" THEN Invalid
    ELSE IF {"a", "b"} \subseteq DOMAIN v.d /\ v.d["a"].k = "str"
            /\ PyHieraKeyModelComplexLevelB(v.d["b"]) # Invalid
    THEN ModelV([a |-> v.d["a"], b |-> PyHieraKeyModelComplexLevelB(v.d["b"])])
    ELSE Invalid

(* The `data` field of a key class's model: the typed value, or Invalid.   *)
(* The strings of the model are neither numerals nor boolean words and its *)
(* integers are neither 0 nor 1, so that the lax coercions str -> int,     *)
(* str -> bool and int -> bool never apply; int -> float keeps the number. *)
ModelData(cls, data) ==
    CASE cls = "PyHieraKeyString"  -> IF data.k = "str" THEN data ELSE Invalid
      [] cls = "PyHieraKeyInt"     -> IF data.k = "int" THEN data ELSE Invalid
      [] cls = "PyHieraKeyFloat"   -> IF data.k = "int" THEN data ELSE Invalid
      [] cls = "PyHieraKeyBool"    -> Invalid
      [] cls = "PyHieraKeyDict"    -> IF data.k = "dict" THEN data ELSE Invalid
      [] cls = "PyHieraKeyComplex" -> PyHieraKeyDataComplexLevel(data)
      \* a key class whose model is key_models.py's PyHieraKeyModelComplex
      [] cls = "PyHieraKeyModelComplex" -> PyHieraKeyModelComplexLevel(data)

(* BaseModel.model_dump(): every declared field, nested models dumped,     *)
(* a field that was not set dumped with its default None.                  *)
RECURSIVE model_dump(_)
model_dump(v) ==
    DictV([f \in DOMAIN v.m |->
              IF v.m[f].k = "model" THEN model_dump(v.m[f]) ELSE v.m[f]])

(* hasattr(validated.data, 'model_dump'): the typed value is a model *)
HasModelDump(v) == v.k = "model"

(* PyHieraModelDataBase: the validated value with its optional sources *)
PyHieraModelDataBase(data, sources) ==
    [k |-> "data", data |-> data, sources |-> sources]

NoSources == [k |-> "none"]

Sources(q) == [k |-> "list", q |-> q]

(* PyHieraModelBackendData: one match of a backend *)
PyHieraModelBackendData(identifier, priority, key, level, data) ==
    [identifier |-> identifier, priority |-> priority, key |-> key,
     level |-> level, data |-> data]

(* A validation that never attaches the sources it is given *)
ValidateDropSources(keys, key, data, sources) ==
    IF key \notin DOMAIN keys
    THEN PyHieraError(<<"Key not found", key>>)
    ELSE LET typed == ModelData(keys[key], data)
         IN  IF typed = Invalid
             THEN PyHieraError(<<"Invalid data for key", key>>)
             ELSE PyHieraModelDataBase(typed, NoSources)

(* A validation whose handler for the missing key also takes the schema's  *)
(* failure                                                                 *)
ValidateOneHandler(keys, key, data, sources) ==
    IF key \notin DOMAIN keys \/ ModelData(keys[key], data) = Invalid
    THEN PyHieraError(<<"Key not found", key>>)
    ELSE PyHieraModelDataBase(
             ModelData(keys[key], data),
             IF sources.k = "list" /\ Len(sources.q) > 0 THEN sources ELSE NoSources)

(* PyHieraKeys.validate(key, data, sources) on the key table `keys`:       *)
(* `if sources:` takes the branch without sources for an empty list too.   *)
validate(keys, key, data, sources) ==
    IF key \notin DOMAIN keys
    THEN PyHieraError(<<"Key not found", key>>)
    ELSE LET typed == ModelData(keys[key], data)
         IN  IF typed = Invalid
             THEN PyHieraError(<<"Invalid data for key", key>>)
             ELSE PyHieraModelDataBase(
                      typed,
                      IF sources.k = "list" /\ Len(sources.q) > 0
                      THEN sources ELSE NoSources)

---------------------------------------------------------------------------
(* Backends (backends.py).                                                 *)
(* A level template is a path: the sequence of its components, each a      *)
(* literal or a {fact} placeholder ("environment/{environment}.yaml" is    *)
(* <<Lit("environment"), Fact("environment")>>); an expanded level is the  *)
(* sequence of the components' strings, so two templates expand to the     *)
(* same level exactly when they name the same file.                        *)

Lit(s) == [lit |-> s]

Fact(n) == [fact |-> n]

IsFact(c) == DOMAIN c = {"fact"}

(* PyHieraBackendBase._expand_level: str.format with the facts; KeyError   *)
(* of the first placeholder without a fact becomes a PyHieraBackendError   *)
(* naming it.                                                              *)
_expand_level(level, facts) ==
    LET missing == {i \in DOMAIN level :
                       IsFact(level[i]) /\ level[i].fact \notin DOMAIN facts}
    IN  IF missing # {}
        THEN LET first == CHOOSE i \in missing : \A j \in missing : i <= j
             IN  PyHieraBackendError(
                     <<"missing facts to expand level", level[first].fact>>)
        ELSE [k |-> "level",
              path |-> [i \in DOMAIN level |->
                           IF IsFact(level[i]) THEN facts[level[i].fact]
                                               ELSE level[i].lit]]

(* A file whose text yaml.safe_load rejects *)
NotLoadable == [y |-> "YAMLError"]

(* PyHieraBackendYamlSync._key_data_get from the i-th level on: one match  *)
(* per level whose file holds the key, in the order of `levels`.  A file   *)
(* that does not exist, or holds no dict, reads as the empty dict; a file  *)
(* that safe_load rejects is logged and passed over.                       *)
RECURSIVE _key_data_get(_, _, _, _, _)
_key_data_get(fs, backend, key, levels, i) ==
    IF i > Len(levels) THEN <<>>
    ELSE LET content == fs[backend.path][levels[i]]
             rest == _key_data_get(fs, backend, key, levels, i + 1)
         IN  IF content = NotLoadable \/ key \notin DOMAIN content
             THEN rest
             ELSE <<PyHieraModelBackendData(backend.identifier, backend.priority,
                                            key, levels[i], content[key])>> \o rest

(* A backend that reads the levels it can expand and skips the others *)
BackendKeyDataGetSkipMissing(fs, backend, key, facts) ==
    LET expanded == [i \in DOMAIN backend.hierarchy |->
                        _expand_level(backend.hierarchy[i], facts)]
        ok == SelectSeq(expanded, LAMBDA e : ~IsRaise(e))
    IN  [k |-> "matches",
         q |-> _key_data_get(fs, backend, key, [i \in DOMAIN ok |-> ok[i].path], 1)]

(* PyHieraBackendSync.key_data_get: expand every template of the           *)
(* hierarchy, then read; a template that cannot be expanded aborts.        *)
BackendKeyDataGet(fs, backend, key, facts) ==
    LET expanded == [i \in DOMAIN backend.hierarchy |->
                        _expand_level(backend.hierarchy[i], facts)]
        failed == {i \in DOMAIN expanded : IsRaise(expanded[i])}
    IN  IF failed # {}
        THEN expanded[CHOOSE i \in failed : \A j \in failed : i <= j]
        ELSE [k |-> "matches",
              q |-> _key_data_get(fs, backend, key,
                                  [i \in DOMAIN expanded |-> expanded[i].path], 1)]

---------------------------------------------------------------------------
(* The backend registry (PyHieraBackendsBase).  _backends_dict is a Python *)
(* dict, which keeps insertion order: it is the sequence of its values.    *)

Identifiers(dict) == {dict[i].identifier : i \in DOMAIN dict}

(* list.sort(key=priority): a stable sort, here by insertion *)
RECURSIVE SortByPriority(_)

(* A sort that puts the highest priority number first *)
SortByPriorityDescending(q) ==
    IF Len(q) <= 1 THEN q
    ELSE LET sorted == SortByPriority(SubSeq(q, 1, Len(q) - 1))
             b == q[Len(q)]
             n == Cardinality({i \in DOMAIN sorted : sorted[i].priority >= b.priority})
         IN  SubSeq(sorted, 1, n) \o <<b>> \o SubSeq(sorted, n + 1, Len(sorted))

SortByPriority(q) ==
    IF q = <<>> THEN <<>>
    ELSE LET sorted == SortByPriority(SubSeq(q, 1, Len(q) - 1))
             b == q[Len(q)]
             n == Cardinality({i \in DOMAIN sorted : sorted[i].priority <= b.priority})
         IN  SubSeq(sorted, 1, n) \o <<b>> \o SubSeq(sorted, n + 1, Len(sorted))

(* A view that keeps the order of registration *)
RecreateListUnsorted(dict) == dict

_recreate_list(dict) == SortByPriority(dict)

(* A registry that checks the identifier only *)
BackendsAddAnyPriority(dict, backend) ==
    IF backend.identifier \in Identifiers(dict)
    THEN PyHieraError(<<"Backend already exists", backend.identifier>>)
    ELSE [k |-> "dict", q |-> Append(dict, backend)]

(* PyHieraBackendsBase.add: the new dict, or the error *)
BackendsAdd(dict, backend) ==
    IF backend.identifier \in Identifiers(dict)
    THEN PyHieraError(<<"Backend already exists", backend.identifier>>)
    ELSE IF \E i \in DOMAIN dict : dict[i].priority = backend.priority
    THEN PyHieraError(<<"Backend cannot use priority", backend.identifier>>)
    ELSE [k |-> "dict", q |-> Append(dict, backend)]

(* A registry whose delete reports success and keeps the entry *)
BackendsDeleteNothing(dict, identifier) ==
    IF identifier \notin Identifiers(dict)
    THEN PyHieraError(<<"Backend not found", identifier>>)
    ELSE [k |-> "dict", q |-> dict]

(* A registry whose delete of an identifier it does not hold does nothing *)
BackendsDeleteQuiet(dict, identifier) ==
    [k |-> "dict", q |-> SelectSeq(dict, LAMBDA b : b.identifier # identifier)]

(* PyHieraBackendsBase.delete: the new dict, or the error *)
BackendsDelete(dict, identifier) ==
    IF identifier \notin Identifiers(dict)
    THEN PyHieraError(<<"Backend not found", identifier>>)
    ELSE [k |-> "dict",
          q |-> SelectSeq(dict, LAMBDA b : b.identifier # identifier)]

(* PyHieraBackendsBase.get *)
BackendsGet(dict, identifier) ==
    IF identifier \notin Identifiers(dict)
    THEN PyHieraError(<<"Backend not found", identifier>>)
    ELSE dict[CHOOSE i \in DOMAIN dict : dict[i].identifier = identifier]

---------------------------------------------------------------------------
(* The resolver (PyHieraSync).  Each operator computes the outcome of one  *)
(* call on the registries `keys` and `backends` (the ordered view) and the *)
(* files `fs`: the value returned or the exception raised.                 *)

(* key_data_get, the loop over self._backends.backends from index i on *)
RECURSIVE FirstMatch(_, _, _, _, _, _, _)

(* A resolver that answers a missing value with None *)
FirstMatchOrNone(keys, backends, fs, key, facts, include_sources, i) ==
    IF i > Len(backends)
    THEN PyHieraModelDataBase(NoneV, NoSources)
    ELSE LET data == BackendKeyDataGet(fs, backends[i], key, facts)
         IN  IF IsRaise(data) THEN data
             ELSE IF Len(data.q) > 0
             THEN validate(keys, key, data.q[1].data,
                           IF include_sources THEN Sources(<<data.q[1]>>)
                                              ELSE NoSources)
             ELSE FirstMatch(keys, backends, fs, key, facts, include_sources, i + 1)

(* A resolver that takes a backend's last match instead of its first *)
FirstMatchLeastSpecific(keys, backends, fs, key, facts, include_sources, i) ==
    IF i > Len(backends)
    THEN PyHieraBackendError(<<"No data found">>)
    ELSE LET data == BackendKeyDataGet(fs, backends[i], key, facts)
         IN  IF IsRaise(data) THEN data
             ELSE IF Len(data.q) > 0
             THEN validate(keys, key, data.q[Len(data.q)].data,
                           IF include_sources THEN Sources(<<data.q[Len(data.q)]>>)
                                              ELSE NoSources)
             ELSE FirstMatch(keys, backends, fs, key, facts, include_sources, i + 1)

FirstMatch(keys, backends, fs, key, facts, include_sources, i) ==
    IF i > Len(backends)
    THEN PyHieraBackendError(<<"No data found">>)
    ELSE LET data == BackendKeyDataGet(fs, backends[i], key, facts)
         IN  IF IsRaise(data) THEN data
             ELSE IF Len(data.q) > 0
             THEN validate(keys, key, data.q[1].data,
                           IF include_sources THEN Sources(<<data.q[1]>>)
                                              ELSE NoSources)
             ELSE FirstMatch(keys, backends, fs, key, facts, include_sources, i + 1)

(* A first-match lookup that goes to the backends without looking the key up *)
KeyDataGetNoKeyCheck(keys, backends, fs, key, facts, include_sources) ==
    FirstMatch(keys, backends, fs, key, facts, include_sources, 1)

key_data_get(keys, backends, fs, key, facts, include_sources) ==
    IF key \notin DOMAIN keys
    THEN PyHieraError(<<"Key not found", key>>)
    ELSE FirstMatch(keys, backends, fs, key, facts, include_sources, 1)

RECURSIVE CollectPoints(_, _, _, _)

(* A collection that looks at the type of a backend's first match only *)
CollectPointsGuardFirst(keys, key, points, j) ==
    IF j > Len(points) THEN [k |-> "matches", q |-> <<>>]
    ELSE IF j = 1 /\ ~IsDict(points[j].data)
    THEN PyHieraBackendError(<<"Invalid data for key, expected dict", key>>)
    ELSE LET validated == validate(keys, key, points[j].data, NoSources)
         IN  IF IsRaise(validated) THEN validated
             ELSE LET point == [points[j] EXCEPT !.data =
                                   IF HasModelDump(validated.data)
                                   THEN model_dump(validated.data)
                                   ELSE validated.data]
                      rest == CollectPoints(keys, key, points, j + 1)
                  IN  IF IsRaise(rest) THEN rest
                      ELSE [k |-> "matches", q |-> <<point>> \o rest.q]

(* A collection that takes every dict as it is stored, without validating  *)
(* it by itself                                                            *)
CollectPointsUnvalidated(keys, key, points, j) ==
    IF j > Len(points) THEN [k |-> "matches", q |-> <<>>]
    ELSE IF ~IsDict(points[j].data)
    THEN PyHieraBackendError(<<"Invalid data for key, expected dict", key>>)
    ELSE LET rest == CollectPoints(keys, key, points, j + 1)
         IN  IF IsRaise(rest) THEN rest
             ELSE [k |-> "matches", q |-> <<points[j]>> \o rest.q]

(* key_data_get_merge, the inner loop over one backend's matches from the  *)
(* j-th on: the dict guard, the validation of the single match and its     *)
(* normalisation to a plain dict.  The first failure aborts.               *)
CollectPoints(keys, key, points, j) ==
    IF j > Len(points) THEN [k |-> "matches", q |-> <<>>]
    ELSE IF ~IsDict(points[j].data)
    THEN PyHieraBackendError(<<"Invalid data for key, expected dict", key>>)
    ELSE LET validated == validate(keys, key, points[j].data, NoSources)
         IN  IF IsRaise(validated) THEN validated
             ELSE LET point == [points[j] EXCEPT !.data =
                                   IF HasModelDump(validated.data)
                                   THEN model_dump(validated.data)
                                   ELSE validated.data]
                      rest == CollectPoints(keys, key, points, j + 1)
                  IN  IF IsRaise(rest) THEN rest
                      ELSE [k |-> "matches", q |-> <<point>> \o rest.q]

(* key_data_get_merge, the outer loop over the backends from index i on *)
RECURSIVE CollectBackends(_, _, _, _, _, _)
CollectBackends(keys, backends, fs, key, facts, i) ==
    IF i > Len(backends) THEN [k |-> "matches", q |-> <<>>]
    ELSE LET data == BackendKeyDataGet(fs, backends[i], key, facts)
         IN  IF IsRaise(data) THEN data
             ELSE LET points == CollectPoints(keys, key, data.q, 1)
                  IN  IF IsRaise(points) THEN points
                      ELSE LET rest == CollectBackends(keys, backends, fs, key, facts, i + 1)
                           IN  IF IsRaise(rest) THEN rest
                               ELSE [k |-> "matches", q |-> points.q \o rest.q]

RECURSIVE FoldReversed(_, _, _)

(* A fold in discovery order: the data points 1, 2, ... applied in turn *)
FoldForward(data_points, n, merged_data) ==
    IF n = 0 \/ IsRaise(merged_data) THEN merged_data
    ELSE _key_data_get_merge(data_points[n].data,
                             FoldReversed(data_points, n - 1, merged_data))

(* for data_point in reversed(data_points): merged_data = merge(...)       *)
(* with the data points n, n - 1, ..., 1 still to fold                     *)
FoldReversed(data_points, n, merged_data) ==
    IF n = 0 \/ IsRaise(merged_data) THEN merged_data
    ELSE FoldReversed(data_points, n - 1,
                      _key_data_get_merge(data_points[n].data, merged_data))

key_data_get_merge(keys, backends, fs, key, facts, include_sources) ==
    IF key \notin DOMAIN keys
    THEN PyHieraError(<<"Key not found", key>>)
    ELSE LET collected == CollectBackends(keys, backends, fs, key, facts, 1)
         IN  IF IsRaise(collected) THEN collected
             ELSE IF Len(collected.q) = 0
             THEN PyHieraBackendError(<<"No data found">>)
             ELSE LET merged_data == FoldReversed(collected.q, Len(collected.q), EmptyDict)
                  IN  IF IsRaise(merged_data) THEN merged_data
                      ELSE validate(keys, key, merged_data,
                                    IF include_sources THEN Sources(collected.q)
                                                       ELSE NoSources)

---------------------------------------------------------------------------
(* yaml.dump / yaml.safe_load of the values of the model.  A YAML node is  *)
(* a scalar, a sequence, a mapping or a !!set (a mapping of the elements   *)
(* to null); safe_load builds the Python value of each node.  yaml.dump    *)
(* writes a tuple as a sequence tagged !!python/tuple, a tag for which     *)
(* safe_load has no constructor: it rejects a text that has such a node.   *)

RECURSIVE yaml_dump(_)
yaml_dump(v) ==
    CASE v.k = "str"  -> [y |-> "scalar", tag |-> "str", s |-> v.s]
      [] v.k = "int"  -> [y |-> "scalar", tag |-> "int", i |-> v.i]
      [] v.k = "none" -> [y |-> "scalar", tag |-> "null"]
      [] v.k = "list" -> [y |-> "seq", q |-> [i \in DOMAIN v.q |-> yaml_dump(v.q[i])]]
      [] v.k = "tuple" -> [y |-> "python/tuple",
                           q |-> [i \in DOMAIN v.q |-> yaml_dump(v.q[i])]]
      [] v.k = "set"  -> [y |-> "map", tag |-> "set", keys |-> {yaml_dump(x) : x \in v.e}]
      [] v.k = "dict" -> [y |-> "map", tag |-> "map",
                          m |-> [f \in DOMAIN v.d |-> yaml_dump(v.d[f])]]

(* safe_load has a constructor for every node of the text *)
RECURSIVE SafeLoadable(_)
SafeLoadable(n) ==
    CASE n.y = "scalar" -> TRUE
      [] n.y = "seq" -> \A i \in DOMAIN n.q : SafeLoadable(n.q[i])
      [] n.y = "map" ->
            IF n.tag = "set" THEN \A x \in n.keys : SafeLoadable(x)
            ELSE \A f \in DOMAIN n.m : SafeLoadable(n.m[f])
      [] OTHER -> FALSE

RECURSIVE safe_load(_)
safe_load(n) ==
    CASE n.y = "scalar" ->
            (CASE n.tag = "str"  -> StrV(n.s)
               [] n.tag = "int"  -> IntV(n.i)
               [] n.tag = "null" -> NoneV)
      [] n.y = "seq" -> ListV([i \in DOMAIN n.q |-> safe_load(n.q[i])])
      [] n.y = "map" ->
            IF n.tag = "set" THEN SetV({safe_load(x) : x \in n.keys})
            ELSE DictV([f \in DOMAIN n.m |-> safe_load(n.m[f])])

(* PyHieraBackendSync.key_data_add and PyHieraBackendYamlSync._key_data_add *)
(* on the files `fs`: the new files, or the error.  The stored value is    *)
(* what a later safe_load of the file returns for the key.  The file is    *)
(* first read with safe_load, whose YAMLError is not caught, and then      *)
(* written with yaml.dump, which writes any value.                         *)
BackendKeyDataAdd(fs, backend, key, data, level, facts) ==
    IF \A i \in DOMAIN backend.hierarchy : backend.hierarchy[i] # level
    THEN PyHieraBackendError(<<"Level not found in hierarchy">>)
    ELSE LET expanded == _expand_level(level, facts)
             plain == IF HasModelDump(data.data) THEN model_dump(data.data)
                                                 ELSE data.data
         IN  IF IsRaise(expanded) THEN expanded
             ELSE IF fs[backend.path][expanded.path] = NotLoadable THEN YAMLError
             ELSE LET content == fs[backend.path][expanded.path]
                      text == yaml_dump(plain)
                      new == IF ~SafeLoadable(text) THEN NotLoadable
                             ELSE [f \in DOMAIN content \cup {key} |->
                                      IF f = key THEN safe_load(text)
                                                 ELSE content[f]]
                  IN  [k |-> "files",
                       fs |-> [fs EXCEPT ![backend.path][expanded.path] = new]]

(* A write that looks the backend up before it validates the data *)
KeyDataAddBackendFirst(keys, dict, fs, backend_identifier, key, data, level, facts) ==
    LET backend == BackendsGet(dict, backend_identifier)
    IN  IF IsRaise(backend) THEN backend
        ELSE LET validated == validate(keys, key, data, NoSources)
             IN  IF IsRaise(validated) THEN validated
                 ELSE BackendKeyDataAdd(fs, backend, key, validated, level, facts)

(* PyHieraSync.key_data_add: validate, look the backend up, write *)
key_data_add(keys, dict, fs, backend_identifier, key, data, level, facts) ==
    LET validated == validate(keys, key, data, NoSources)
    IN  IF IsRaise(validated) THEN validated
        ELSE LET backend == BackendsGet(dict, backend_identifier)
             IN  IF IsRaise(backend) THEN backend
                 ELSE BackendKeyDataAdd(fs, backend, key, validated, level, facts)

(* A schema table that answers an unknown name with the string key class *)
KeyModelsGetOrString(models, name) ==
    [k |-> "class",
     cls |-> IF name \in DOMAIN models THEN models[name] ELSE "PyHieraKeyString"]

(* PyHieraKeyModels.get *)
KeyModelsGet(models, name) ==
    IF name \notin DOMAIN models
    THEN PyHieraError(<<"Invalid key model", name>>)
    ELSE [k |-> "class", cls |-> models[name]]

(* PyHieraKeyModels.delete: the new table, or the error *)
KeyModelsDelete(models, name) ==
    IF name \notin DOMAIN models
    THEN PyHieraError(<<"Key model not found", name>>)
    ELSE [k |-> "dict", d |-> [n \in DOMAIN models \ {name} |-> models[n]]]

(* What a property hands to its caller: a dict object, which is either the *)
(* registry's own dict or a new one, and its entries                       *)
DictObject(is, d) == [k |-> "dictobj", is |-> is, d |-> d]

(* A property that hands out the registry's own dict *)
TheDictItself(d) == DictObject("registry", d)

(* PyHieraKeys.keys: self._keys.copy() *)
Keys_keys(d) == DictObject("copy", d)

(* PyHieraKeyModels.models: self._models.copy() *)
KeyModels_models(d) == DictObject("copy", d)

---------------------------------------------------------------------------
(* The inputs the calls are made with *)

MaxPriority == 2

Priorities == 1 .. MaxPriority

BackendIds == {"A", "B"}

HostLevel == <<Lit("host"), Fact("hostname")>>

EnvironmentLevel == <<Lit("environment"), Fact("environment")>>

CommonLevel == <<Lit("common")>>

(* Backend A has the three-level hierarchy of the test suite's deep        *)
(* hierarchy, backend B the two-level one of its fixture.                  *)
HierarchyOf(identifier) ==
    IF identifier = "A" THEN <<HostLevel, EnvironmentLevel, CommonLevel>>
                        ELSE <<EnvironmentLevel, CommonLevel>>

(* PyHieraBackendYamlSync(config, identifier, priority, hierarchy): every  *)
(* identifier has a data directory of its own.                             *)
Backend(identifier, priority) ==
    [k |-> "backend", identifier |-> identifier, priority |-> priority,
     hierarchy |-> HierarchyOf(identifier), path |-> identifier]

BackendObjects == {Backend(i, p) : i \in BackendIds, p \in Priorities}

FactValue == [hostname |-> "web01", environment |-> "prod"]

FactSets == {[n \in S |-> FactValue[n]] : S \in SUBSET DOMAIN FactValue}

AllFacts == [n \in DOMAIN FactValue |-> FactValue[n]]

Paths == BackendIds

Levels == {<<"host", "web01">>, <<"environment", "prod">>, <<"common">>}

(* The levels a backend of the given path reads under some facts *)
LevelsOf(path) ==
    {_expand_level(HierarchyOf(path)[i], AllFacts).path :
        i \in DOMAIN HierarchyOf(path)}

KeyNames == {"config"}

(* Stored values: three dicts that overlap in scalar, list, set and nested *)
(* fields, and a value that is no dict.                                    *)
CommonData ==
    DictV([a |-> StrV("common"),
           b |-> DictV([blarg |-> StrV("one"), other |-> StrV("keep"),
                        blub |-> SetV({StrV("red"), StrV("green")})]),
           servers |-> ListV(<<IntV(2), IntV(3)>>),
           tags |-> SetV({IntV(5), IntV(6)}),
           timeout |-> IntV(30)])

EnvironmentData ==
    DictV([a |-> StrV("prod"),
           b |-> DictV([blarg |-> StrV("two"),
                        blub |-> SetV({StrV("green"), StrV("blue")})]),
           servers |-> ListV(<<IntV(3)>>)])

HostData ==
    DictV([b |-> DictV([other |-> StrV("host")]),
           servers |-> ListV(<<IntV(4)>>),
           tags |-> SetV({IntV(6), IntV(7)}),
           timeout |-> IntV(60)])

ScalarData == StrV("plain")

DictValues == {CommonData, EnvironmentData, HostData}

DataValues == DictValues \cup {ScalarData}

(* The contents a YAML file can have: no entry for a key, or a value *)
FileContents ==
    {EmptyMap} \cup UNION {[S -> DataValues] : S \in SUBSET KeyNames \ {{}}}

EmptyFiles == [p \in Paths |-> [l \in Levels |-> EmptyMap]]

NoCall == [op |-> "none"]

---------------------------------------------------------------------------
(* The calls *)

(* PyHieraBase.key_add / PyHieraKeys.add *)
KeyAdd(key, hiera_key) ==
    LET model_class == KeyModelsGet(_models, hiera_key)
    IN  /\ _keys' = IF IsRaise(model_class) THEN _keys
                    ELSE [f \in DOMAIN _keys \cup {key} |->
                             IF f = key THEN model_class.cls ELSE _keys[f]]
        /\ last' = [op |-> "key_add", key |-> key, hiera_key |-> hiera_key,
                    out |-> IF IsRaise(model_class) THEN model_class ELSE NoneV]
        /\ UNCHANGED <<_models, _backends_dict, _backends_list, files>>

(* PyHieraBase.key_delete / PyHieraKeys.delete *)
KeyDelete(key) ==
    /\ _keys' = [f \in DOMAIN _keys \ {key} |-> _keys[f]]
    /\ last' = [op |-> "key_delete", key |-> key,
                out |-> IF key \in DOMAIN _keys THEN NoneV
                        ELSE PyHieraError(<<"Key not found", key>>)]
    /\ UNCHANGED <<_models, _backends_dict, _backends_list, files>>

(* A key_model_add that binds the keys of the name's old class to the new  *)
(* one                                                                     *)
KeyModelAddRebinding(name, cls) ==
    /\ _models' = [n \in DOMAIN _models \cup {name} |->
                      IF n = name THEN cls ELSE _models[n]]
    /\ _keys' = [f \in DOMAIN _keys |->
                    IF name \in DOMAIN _models /\ _keys[f] = _models[name]
                    THEN cls ELSE _keys[f]]
    /\ last' = [op |-> "key_model_add", name |-> name, out |-> NoneV]
    /\ UNCHANGED <<_backends_dict, _backends_list, files>>

(* PyHieraBase.key_model_add / PyHieraKeyModels.add, for a key class *)
KeyModelAdd(name, cls) ==
    /\ _models' = [n \in DOMAIN _models \cup {name} |->
                      IF n = name THEN cls ELSE _models[n]]
    /\ last' = [op |-> "key_model_add", name |-> name, out |-> NoneV]
    /\ UNCHANGED <<_keys, _backends_dict, _backends_list, files>>

(* PyHieraBase.backend_add / PyHieraBackendsBase.add *)
BackendAdd(backend) ==
    LET added == BackendsAdd(_backends_dict, backend)
    IN  /\ IF IsRaise(added)
           THEN UNCHANGED <<_backends_dict, _backends_list>>
           ELSE /\ _backends_dict' = added.q
                /\ _backends_list' = _recreate_list(added.q)
        /\ last' = [op |-> "backend_add", backend |-> backend,
                    out |-> IF IsRaise(added) THEN added ELSE NoneV]
        /\ UNCHANGED <<_models, _keys, files>>

(* PyHieraBase.backend_delete / PyHieraBackendsBase.delete *)
BackendDelete(identifier) ==
    LET deleted == BackendsDelete(_backends_dict, identifier)
    IN  /\ IF IsRaise(deleted)
           THEN UNCHANGED <<_backends_dict, _backends_list>>
           ELSE /\ _backends_dict' = deleted.q
                /\ _backends_list' = _recreate_list(deleted.q)
        /\ last' = [op |-> "backend_delete", identifier |-> identifier,
                    out |-> IF IsRaise(deleted) THEN deleted ELSE NoneV]
        /\ UNCHANGED <<_models, _keys, files>>

(* PyHieraSync.key_data_add *)
KeyDataAdd(backend_identifier, key, data, level, facts) ==
    LET added == key_data_add(_keys, _backends_dict, files,
                              backend_identifier, key, data, level, facts)
    IN  /\ files' = IF IsRaise(added) THEN files ELSE added.fs
        /\ last' = [op |-> "key_data_add", backend_identifier |-> backend_identifier,
                    key |-> key, data |-> data, level |-> level, facts |-> facts,
                    out |-> IF IsRaise(added) THEN added ELSE NoneV]
        /\ UNCHANGED <<_models, _keys, _backends_dict, _backends_list>>

(* PyHieraSync.key_data_get *)
KeyDataGet(key, facts, include_sources) ==
    /\ last' = [op |-> "key_data_get", key |-> key, facts |-> facts,
                include_sources |-> include_sources,
                out |-> key_data_get(_keys, _backends_list, files,
                                     key, facts, include_sources)]
    /\ UNCHANGED <<_models, _keys, _backends_dict, _backends_list, files>>

(* PyHieraSync.key_data_get_merge *)
KeyDataGetMerge(key, facts, include_sources) ==
    /\ last' = [op |-> "key_data_get_merge", key |-> key, facts |-> facts,
                include_sources |-> include_sources,
                out |-> key_data_get_merge(_keys, _backends_list, files,
                                           key, facts, include_sources)]
    /\ UNCHANGED <<_models, _keys, _backends_dict, _backends_list, files>>

(* PyHieraBase.key_data_validate *)
KeyDataValidate(key, data, sources) ==
    /\ last' = [op |-> "key_data_validate", key |-> key, data |-> data,
                sources |-> sources,
                out |-> validate(_keys, key, data, sources)]
    /\ UNCHANGED <<_models, _keys, _backends_dict, _backends_list, files>>

(* PyHieraBase.key_model_delete / PyHieraKeyModels.delete *)
KeyModelDelete(name) ==
    LET deleted == KeyModelsDelete(_models, name)
    IN  /\ _models' = IF IsRaise(deleted) THEN _models ELSE deleted.d
        /\ last' = [op |-> "key_model_delete", name |-> name,
                    out |-> IF IsRaise(deleted) THEN deleted ELSE NoneV]
        /\ UNCHANGED <<_keys, _backends_dict, _backends_list, files>>

(* The property PyHieraBase.keys *)
KeysProperty ==
    /\ last' = [op |-> "keys", out |-> Keys_keys(_keys), changed |-> FALSE]
    /\ UNCHANGED <<_models, _keys, _backends_dict, _backends_list, files>>

(* The property PyHieraBase.key_models *)
KeyModelsProperty ==
    /\ last' = [op |-> "key_models", out |-> KeyModels_models(_models),
                changed |-> FALSE]
    /\ UNCHANGED <<_models, _keys, _backends_dict, _backends_list, files>>

(* The caller changes the dict a property returned: returned[name] = value *)
(* or, for value = Deleted, del returned[name].  A change of the           *)
(* registry's own dict is a change of the registry.                        *)
Deleted == "<deleted>"

SetItem(d, name, value) ==
    IF value = Deleted THEN [f \in DOMAIN d \ {name} |-> d[f]]
    ELSE [f \in DOMAIN d \cup {name} |-> IF f = name THEN value ELSE d[f]]

PropertyOps == {"keys", "key_models"}

CallerChangesReturned(name, value) ==
    /\ last.op \in PropertyOps
    /\ value = Deleted => name \in DOMAIN last.out.d
    /\ LET new == SetItem(last.out.d, name, value)
           own == last.out.is = "registry"
       IN  /\ last' = [last EXCEPT !.out.d = new, !.changed = TRUE]
           /\ _keys' = IF own /\ last.op = "keys" THEN new ELSE _keys
           /\ _models' = IF own /\ last.op = "key_models" THEN new ELSE _models
    /\ UNCHANGED <<_backends_dict, _backends_list, files>>

---------------------------------------------------------------------------
(* The resolver from its construction: PyHieraSync() holds the default key *)
(* models, no key and no backend, and the data directories are empty.      *)

Init ==
    /\ _models = DEFAULT_KEY_MODELS
    /\ _keys = EmptyMap
    /\ _backends_dict = <<>>
    /\ _backends_list = <<>>
    /\ files = EmptyFiles
    /\ last = NoCall

Stored(fs) == {pl \in Paths \X Levels : fs[pl[1]][pl[2]] # EmptyMap}

WrittenData == {CommonData, ScalarData}

(* A lookup, a validation, and a call that raises, change nothing but      *)
(* `last`: every state and every outcome is reached by behaviours in which *)
(* such a call comes last, so those are the behaviours explored.           *)
LookupOps == {"key_data_get", "key_data_get_merge"}

Returned ==
    \/ last.op \in LookupOps \cup {"key_data_validate"}
    \/ last.op # "none" /\ IsRaise(last.out)

Next ==
    \/ ~Returned /\ \E key \in KeyNames, hiera_key \in {"SimpleString", "DynamicDict"} :
                        KeyAdd(key, hiera_key)
    \/ ~Returned /\ \E key \in KeyNames : KeyDelete(key)
    \/ ~Returned /\ KeyModelAdd("DynamicDict", "PyHieraKeyDict")
    \/ ~Returned /\ \E backend \in BackendObjects : BackendAdd(backend)
    \/ ~Returned /\ \E identifier \in BackendIds : BackendDelete(identifier)
    \/ ~Returned /\ \E identifier \in BackendIds, key \in KeyNames, data \in WrittenData,
                        level \in {EnvironmentLevel, CommonLevel}, facts \in FactSets :
                        KeyDataAdd(identifier, key, data, level, facts)
    \/ ~Returned /\ \E key \in KeyNames, facts \in FactSets, include_sources \in BOOLEAN :
                        KeyDataGet(key, facts, include_sources)
    \/ ~Returned /\ \E key \in KeyNames, facts \in FactSets, include_sources \in BOOLEAN :
                        KeyDataGetMerge(key, facts, include_sources)
    \/ ~Returned /\ \E key \in KeyNames, data \in WrittenData :
                        KeyDataValidate(key, data, NoSources)

Spec == Init /\ [][Next]_vars

---------------------------------------------------------------------------
(* One lookup on a resolver set up as the test suite's fixture sets it up: *)
(* the key models "DynamicDict" and "Complex" registered, the key bound to *)
(* one of them or to "SimpleString", backend A and then backend B added,    *)
(* either of them with the lower priority number, and any data in the      *)
(* files the backends read.                                                *)

FixtureModels ==
    [n \in DOMAIN DEFAULT_KEY_MODELS \cup {"DynamicDict", "Complex"} |->
        CASE n = "DynamicDict" -> "PyHieraKeyDict"
          [] n = "Complex" -> "PyHieraKeyComplex"
          [] OTHER -> DEFAULT_KEY_MODELS[n]]

InitResolve ==
    /\ _models = FixtureModels
    /\ \E key \in KeyNames, hiera_key \in {"DynamicDict", "Complex", "SimpleString"} :
          _keys = [f \in {key} |-> FixtureModels[hiera_key]]
    /\ \E b1 \in {b \in BackendObjects : b.identifier = "A"}, b2 \in BackendObjects :
          LET first == BackendsAdd(<<>>, b1)
          IN  /\ ~IsRaise(first)
              /\ LET second == BackendsAdd(first.q, b2)
                 IN  /\ ~IsRaise(second)
                     /\ _backends_dict = second.q
                     /\ _backends_list = _recreate_list(second.q)
    /\ files \in [Paths -> [Levels -> FileContents]]
    /\ \A p \in Paths : \A l \in Levels \ LevelsOf(p) : files[p][l] = EmptyMap
    /\ last = NoCall

NextResolve ==
    \/ last = NoCall /\ \E key \in KeyNames, facts \in FactSets, include_sources \in BOOLEAN :
                            KeyDataGet(key, facts, include_sources)
    \/ last = NoCall /\ \E key \in KeyNames, facts \in FactSets, include_sources \in BOOLEAN :
                            KeyDataGetMerge(key, facts, include_sources)

SpecResolve == InitResolve /\ [][NextResolve]_vars

---------------------------------------------------------------------------
(* The registries from construction: key models, keys and backends added   *)
(* and deleted, values validated, and the dicts the properties return      *)
(* changed by their caller.  Two keys, known and unknown names.            *)

RegistryKeys == {"config", "db_host"}

ModelNames == {"SimpleString", "SimpleInt", "DynamicDict", "Complex"}

(* Values to validate: the stored values, an int, a map the structured     *)
(* schema accepts after coercing a list to a set, and one it rejects in a  *)
(* nested field only                                                       *)
CoercedData ==
    DictV([a |-> StrV("x"), b |-> DictV([blub |-> ListV(<<StrV("red")>>)])])

HalfValidData ==
    DictV([a |-> StrV("x"), b |-> DictV([blarg |-> IntV(7)])])

ValidatedValues == {CommonData, ScalarData, IntV(7), CoercedData, HalfValidData}

OneSource ==
    Sources(<<PyHieraModelBackendData("A", 1, "config", <<"common">>, ScalarData)>>)

NextRegistry ==
    \/ ~Returned /\ \E name \in {"DynamicDict", "Complex"} :
                        KeyModelAdd(name, FixtureModels[name])
    \/ ~Returned /\ \E name \in {"DynamicDict", "Complex", "Unknown"} :
                        KeyModelDelete(name)
    \/ ~Returned /\ \E key \in RegistryKeys, hiera_key \in ModelNames :
                        KeyAdd(key, hiera_key)
    \/ ~Returned /\ \E key \in RegistryKeys : KeyDelete(key)
    \/ ~Returned /\ \E backend \in BackendObjects : BackendAdd(backend)
    \/ ~Returned /\ \E identifier \in BackendIds : BackendDelete(identifier)
    \/ ~Returned /\ \E key \in RegistryKeys, data \in ValidatedValues,
                        sources \in {NoSources, Sources(<<>>), OneSource} :
                        KeyDataValidate(key, data, sources)
    \/ ~Returned /\ KeysProperty
    \/ ~Returned /\ KeyModelsProperty
    \/ \E name \in RegistryKeys, value \in {"PyHieraKeyString", Deleted} :
           last.op = "keys" /\ CallerChangesReturned(name, value)
    \/ \E name \in {"SimpleString", "Complex"}, value \in {"PyHieraKeyDict", Deleted} :
           last.op = "key_models" /\ CallerChangesReturned(name, value)

SpecRegistry == Init /\ [][NextRegistry]_vars

---------------------------------------------------------------------------
(* Writes and first-match lookups on one backend with the hierarchy        *)
(* environment/{environment}, common, under two values of the fact: the    *)
(* key is bound to the string schema or to the dict schema, and the values *)
(* written are two strings and three dicts, one of them with a tuple.      *)

RoundTripLevels == Levels \cup {<<"environment", "qa">>}

RoundTripFacts == {[environment |-> "prod"], [environment |-> "qa"]}

PortsData == DictV([ports |-> TupleV(<<IntV(80), IntV(443)>>)])

RoundTripValues == {StrV("A"), StrV("B"), CommonData, EnvironmentData, PortsData}

InitRoundTrip ==
    /\ _models = FixtureModels
    /\ \E hiera_key \in {"SimpleString", "DynamicDict"} :
          _keys = [f \in KeyNames |-> FixtureModels[hiera_key]]
    /\ _backends_dict = <<Backend("B", 1)>>
    /\ _backends_list = _recreate_list(_backends_dict)
    /\ files = [p \in Paths |-> [l \in RoundTripLevels |-> EmptyMap]]
    /\ last = NoCall

NextRoundTrip ==
    \/ ~Returned /\ \E key \in KeyNames, data \in RoundTripValues,
                        level \in {EnvironmentLevel, CommonLevel},
                        facts \in RoundTripFacts :
                        KeyDataAdd("B", key, data, level, facts)
    \/ ~Returned /\ \E key \in KeyNames, facts \in RoundTripFacts,
                        include_sources \in BOOLEAN :
                        KeyDataGet(key, facts, include_sources)

SpecRoundTrip == InitRoundTrip /\ [][NextRoundTrip]_vars

---------------------------------------------------------------------------
(* The fold of key_data_get_merge on objects: the data points are one to   *)
(* MaxPoints dicts in discovery order, as the backends return them for a   *)
(* key of the schema `data: dict`, among them a dict with a list of dicts. *)

MaxPoints == 3

UsersData ==
    DictV([users |-> ListV(<<DictV([name |-> StrV("root")])>>),
           servers |-> ListV(<<IntV(5)>>)])

MergeInputs == {CommonData, EnvironmentData, HostData, UsersData}

InitMerge ==
    /\ _models = FixtureModels
    /\ _keys = [f \in KeyNames |-> "PyHieraKeyDict"]
    /\ _backends_dict = <<>>
    /\ _backends_list = <<>>
    /\ files = EmptyFiles
    /\ \E n \in 1 .. MaxPoints :
          \E data_points \in [1 .. n -> MergeInputs] :
              last = [op |-> "data_points", data_points |-> data_points]

(* hiera.py 724-726: the fold of the data points collected *)
Fold ==
    /\ last.op = "data_points"
    /\ last' = [op |-> "fold", data_points |-> last.data_points,
                out |-> FoldObjects(last.data_points, Len(last.data_points),
                                    [k |-> "merged", obj |-> NewDict, changed |-> {}])]
    /\ UNCHANGED <<_models, _keys, _backends_dict, _backends_list, files>>

NextMerge == Fold

SpecMerge == InitMerge /\ [][NextMerge]_vars

---------------------------------------------------------------------------
(* The asynchronous resolver (PyHieraAsync with PyHieraBackendYamlAsync).  *)
(* A coroutine runs without interruption from one await that suspends to   *)
(* the next; what other tasks of the event loop do in between is seen when *)
(* it resumes.  A call in progress is the record `last` with its position: *)
(*   pc        "await" (suspended in the call of backends[i]) or "done"    *)
(*   backends  the list object the for loop iterates: _recreate_list      *)
(*             assigns a new list to _backends_list and leaves the list    *)
(*             being iterated as it was                                    *)
(*   i         the position of the loop in that list                       *)
(*   reads     the identifiers of the backends whose key_data_get was      *)
(*             called, in the order of the calls                           *)
(*   keys0     the key table when the call began                           *)
(*   changes   the number of registry changes made since the call began    *)

Pending == [k |-> "pending"]

(* PyHieraBackendYamlAsync._key_data_get from the i-th level on *)
RECURSIVE AsyncYamlKeyDataGet(_, _, _, _, _)
AsyncYamlKeyDataGet(fs, backend, key, levels, i) ==
    IF i > Len(levels) THEN <<>>
    ELSE LET data == fs[backend.path][levels[i]]
             rest == AsyncYamlKeyDataGet(fs, backend, key, levels, i + 1)
         IN  IF data = NotLoadable THEN rest           \* except yaml.YAMLError
             ELSE IF key \notin DOMAIN data THEN rest  \* continue
             ELSE <<PyHieraModelBackendData(backend.identifier, backend.priority,
                                            key, levels[i], data[key])>> \o rest

(* An asynchronous backend that returns its first match only *)
AsyncBackendKeyDataGetFirstOnly(fs, backend, key, facts) ==
    LET all == BackendKeyDataGet(fs, backend, key, facts)
    IN  IF IsRaise(all) \/ Len(all.q) <= 1 THEN all
        ELSE [k |-> "matches", q |-> <<all.q[1]>>]

(* PyHieraBackendAsync.key_data_get *)
AsyncBackendKeyDataGet(fs, backend, key, facts) ==
    LET levels == [i \in DOMAIN backend.hierarchy |->
                      _expand_level(backend.hierarchy[i], facts)]
        failed == {i \in DOMAIN levels : IsRaise(levels[i])}
    IN  IF failed # {}
        THEN levels[CHOOSE i \in failed : \A j \in failed : i <= j]
        ELSE [k |-> "matches",
              q |-> AsyncYamlKeyDataGet(fs, backend, key,
                                        [i \in DOMAIN levels |-> levels[i].path], 1)]

(* PyHieraBackendAsync.key_data_add and                                    *)
(* PyHieraBackendYamlAsync._key_data_add: the new files, or the error      *)
AsyncBackendKeyDataAdd(fs, backend, key, data, level, facts) ==
    IF \A i \in DOMAIN backend.hierarchy : backend.hierarchy[i] # level
    THEN PyHieraBackendError(<<"Level not found in hierarchy">>)
    ELSE LET expanded == _expand_level(level, facts)
         IN  IF IsRaise(expanded) THEN expanded
             ELSE LET old == fs[backend.path][expanded.path]
                      dumped == yaml_dump(IF HasModelDump(data.data)
                                          THEN model_dump(data.data) ELSE data.data)
                  IN  IF old = NotLoadable THEN YAMLError   \* yaml.safe_load
                      ELSE [k |-> "files",
                            fs |-> [fs EXCEPT ![backend.path][expanded.path] =
                                      IF ~SafeLoadable(dumped) THEN NotLoadable
                                      ELSE [f \in DOMAIN old \cup {key} |->
                                               IF f = key THEN safe_load(dumped)
                                                          ELSE old[f]]]]

(* PyHieraAsync.key_data_get_merge, the loop over one backend's matches    *)
(* (lines 627-638) from the j-th on                                        *)
RECURSIVE AsyncCollectPoints(_, _, _, _)
AsyncCollectPoints(keys, key, _data_points, j) ==
    IF j > Len(_data_points) THEN [k |-> "matches", q |-> <<>>]
    ELSE LET data_point == _data_points[j]
         IN  IF data_point.data.k # "dict"
             THEN PyHieraBackendError(<<"Invalid data for key, expected dict", key>>)
             ELSE LET validated == validate(keys, key, data_point.data, NoSources)
                  IN  IF IsRaise(validated) THEN validated
                      ELSE LET rest == AsyncCollectPoints(keys, key, _data_points, j + 1)
                               data == IF HasModelDump(validated.data)
                                       THEN model_dump(validated.data)
                                       ELSE validated.data
                           IN  IF IsRaise(rest) THEN rest
                               ELSE [k |-> "matches",
                                     q |-> <<[data_point EXCEPT !.data = data]>>
                                              \o rest.q]

(* PyHieraAsync.key_data_get_merge, lines 643-645, with the data points    *)
(* n, n - 1, ..., 1 still to fold                                          *)
RECURSIVE AsyncFoldReversed(_, _, _)
AsyncFoldReversed(data_points, n, merged_data) ==
    IF n = 0 THEN merged_data
    ELSE LET merged == _key_data_get_merge(data_points[n].data, merged_data)
         IN  IF IsRaise(merged) THEN merged
             ELSE AsyncFoldReversed(data_points, n - 1, merged)

Done(call, out) == [call EXCEPT !.pc = "done", !.out = out]

(* The for loop over the backends at position call.i: suspended in the     *)
(* call of the next backend, or past the end of the list, where the call   *)
(* ends without another await                                              *)
AsyncLoop(call, keys) ==
    IF call.i <= Len(call.backends) THEN call
    ELSE IF call.op = "async_key_data_get" \/ Len(call.data_points) = 0
    THEN Done(call, PyHieraBackendError(<<"No data found">>))
    ELSE LET merged_data == AsyncFoldReversed(call.data_points,
                                              Len(call.data_points), EmptyDict)
         IN  Done(call, IF IsRaise(merged_data) THEN merged_data
                        ELSE validate(keys, call.key, merged_data,
                                      IF call.include_sources
                                      THEN Sources(call.data_points)
                                      ELSE NoSources))

(* A first-match loop that has the next backend read as well before it     *)
(* looks at what the backend returned                                      *)
AsyncGetStepReadAhead(call, keys, fs) ==
    LET backend == call.backends[call.i]
        data == AsyncBackendKeyDataGet(fs, backend, call.key, call.facts)
        ahead == IF call.i < Len(call.backends)
                 THEN <<backend.identifier, call.backends[call.i + 1].identifier>>
                 ELSE <<backend.identifier>>
        read == [call EXCEPT !.reads = @ \o ahead]
    IN  IF IsRaise(data) THEN Done(read, data)
        ELSE IF Len(data.q) > 0
        THEN Done(read, validate(keys, call.key, data.q[1].data,
                                 IF call.include_sources THEN Sources(<<data.q[1]>>)
                                                         ELSE NoSources))
        ELSE AsyncLoop([read EXCEPT !.i = @ + 1], keys)

(* PyHieraAsync.key_data_get resumed: the call of backends[i] returns, and *)
(* the coroutine runs on to its next await or to its end                   *)
AsyncGetStep(call, keys, fs) ==
    LET backend == call.backends[call.i]
        data == AsyncBackendKeyDataGet(fs, backend, call.key, call.facts)
        read == [call EXCEPT !.reads = Append(@, backend.identifier)]
    IN  IF IsRaise(data) THEN Done(read, data)
        ELSE IF Len(data.q) > 0
        THEN Done(read, validate(keys, call.key, data.q[1].data,
                                 IF call.include_sources THEN Sources(<<data.q[1]>>)
                                                         ELSE NoSources))
        ELSE AsyncLoop([read EXCEPT !.i = @ + 1], keys)

(* PyHieraAsync.key_data_get_merge resumed *)
AsyncMergeStep(call, keys, fs) ==
    LET backend == call.backends[call.i]
        _data_points == AsyncBackendKeyDataGet(fs, backend, call.key, call.facts)
        read == [call EXCEPT !.reads = Append(@, backend.identifier)]
    IN  IF IsRaise(_data_points) THEN Done(read, _data_points)
        ELSE LET points == AsyncCollectPoints(keys, call.key, _data_points.q, 1)
             IN  IF IsRaise(points) THEN Done(read, points)
                 ELSE AsyncLoop([read EXCEPT !.data_points = @ \o points.q,
                                             !.i = @ + 1], keys)

AsyncLookupOps == {"async_key_data_get", "async_key_data_get_merge"}

(* A call of the asynchronous resolver is suspended *)
Suspended ==
    /\ last.op \in AsyncLookupOps \cup {"async_key_data_add"}
    /\ last.pc = "await"

(* PyHieraAsync.key_data_get and key_data_get_merge up to the first await: *)
(* the key check and the start of the loop                                 *)
AsyncLookup(op, key, facts, include_sources) ==
    /\ last = NoCall
    /\ LET call == [op |-> op, key |-> key, facts |-> facts,
                    include_sources |-> include_sources,
                    backends |-> _backends_list, i |-> 1, reads |-> <<>>,
                    data_points |-> <<>>, keys0 |-> _keys, files0 |-> files,
                    changes |-> 0, pc |-> "await", out |-> Pending]
       IN  last' = IF key \notin DOMAIN _keys
                   THEN Done(call, PyHieraError(<<"Key not found", key>>))
                   ELSE AsyncLoop(call, _keys)
    /\ UNCHANGED <<_models, _keys, _backends_dict, _backends_list, files>>

(* PyHieraAsync.key_data_add up to the await of the backend's write *)
AsyncKeyDataAdd(backend_identifier, key, data, level, facts) ==
    /\ last = NoCall
    /\ LET validated == validate(_keys, key, data, NoSources)
           backend == BackendsGet(_backends_dict, backend_identifier)
           call == [op |-> "async_key_data_add",
                    backend_identifier |-> backend_identifier, key |-> key,
                    data |-> data, level |-> level, facts |-> facts,
                    validated |-> validated, backend |-> backend,
                    keys0 |-> _keys, files0 |-> files, changes |-> 0,
                    pc |-> "await", out |-> Pending]
       IN  last' = IF IsRaise(validated) THEN Done(call, validated)
                   ELSE IF IsRaise(backend) THEN Done(call, backend)
                   ELSE call
    /\ UNCHANGED <<_models, _keys, _backends_dict, _backends_list, files>>

(* The event loop resumes the suspended call *)
AsyncResume ==
    /\ Suspended
    /\ IF last.op = "async_key_data_add"
       THEN LET added == AsyncBackendKeyDataAdd(files, last.backend, last.key,
                                                last.validated, last.level,
                                                last.facts)
            IN  /\ files' = IF IsRaise(added) THEN files ELSE added.fs
                /\ last' = Done(last, IF IsRaise(added) THEN added ELSE NoneV)
       ELSE /\ last' = IF last.op = "async_key_data_get"
                       THEN AsyncGetStep(last, _keys, files)
                       ELSE AsyncMergeStep(last, _keys, files)
            /\ files' = files
    /\ UNCHANGED <<_models, _keys, _backends_dict, _backends_list>>

MaxChanges == 1

(* Another task of the event loop calls key_delete, key_add, backend_add   *)
(* or backend_delete, with success, while the call is suspended            *)
WhileSuspended ==
    /\ Suspended
    /\ last.changes < MaxChanges
    /\ last' = [last EXCEPT !.changes = @ + 1]
    /\ \/ \E key \in DOMAIN _keys :
             /\ _keys' = [f \in DOMAIN _keys \ {key} |-> _keys[f]]
             /\ UNCHANGED <<_backends_dict, _backends_list>>
       \/ \E key \in KeyNames, hiera_key \in {"SimpleString", "DynamicDict"} :
             /\ _keys' = [f \in DOMAIN _keys \cup {key} |->
                             IF f = key THEN KeyModelsGet(_models, hiera_key).cls
                                        ELSE _keys[f]]
             /\ _keys' # _keys
             /\ UNCHANGED <<_backends_dict, _backends_list>>
       \/ \E backend \in BackendObjects :
             LET added == BackendsAdd(_backends_dict, backend)
             IN  /\ ~IsRaise(added)
                 /\ _backends_dict' = added.q
                 /\ _backends_list' = _recreate_list(added.q)
                 /\ _keys' = _keys
       \/ \E identifier \in Identifiers(_backends_dict) :
             LET deleted == BackendsDelete(_backends_dict, identifier)
             IN  /\ _backends_dict' = deleted.q
                 /\ _backends_list' = _recreate_list(deleted.q)
                 /\ _keys' = _keys
    /\ UNCHANGED <<_models, files>>

(* The resolver of the test suite's asynchronous fixture: the key bound to *)
(* the dict schema or the string schema, or not registered; one or both    *)
(* backends; in each data directory nothing, a dict at the common level,   *)
(* or a dict at the environment level and a string at the common level.    *)
AsyncLayouts ==
    {[l \in Levels |-> EmptyMap],
     [l \in Levels |-> IF l = <<"common">> THEN [config |-> CommonData]
                                           ELSE EmptyMap],
     [l \in Levels |->
         CASE l = <<"common">> -> [config |-> ScalarData]
           [] l = <<"environment", "prod">> -> [config |-> EnvironmentData]
           [] OTHER -> EmptyMap]}

AsyncFacts == {AllFacts, [environment |-> "prod"]}

InitAsync ==
    /\ _models = FixtureModels
    /\ _keys \in {EmptyMap} \cup
                 {[f \in KeyNames |-> FixtureModels[hiera_key]] :
                     hiera_key \in {"DynamicDict", "SimpleString"}}
    /\ _backends_dict \in {<<Backend("A", 1)>>,
                           <<Backend("A", 1), Backend("B", 2)>>,
                           <<Backend("A", 2), Backend("B", 1)>>}
    /\ _backends_list = _recreate_list(_backends_dict)
    /\ files \in [Paths -> AsyncLayouts]
    /\ last = NoCall

NextAsync ==
    \/ \E op \in AsyncLookupOps, key \in KeyNames, facts \in AsyncFacts,
           include_sources \in BOOLEAN :
           AsyncLookup(op, key, facts, include_sources)
    \/ \E identifier \in BackendIds, key \in KeyNames, data \in WrittenData,
           level \in {HostLevel, CommonLevel}, facts \in AsyncFacts :
           AsyncKeyDataAdd(identifier, key, data, level, facts)
    \/ AsyncResume
    \/ WhileSuspended

SpecAsync == InitAsync /\ [][NextAsync]_vars

---------------------------------------------------------------------------
(* Threads on one resolver.  The registry takes no lock, so the statements *)
(* of PyHieraBackendsBase.add, delete and _recreate_list of one thread     *)
(* interleave with those of the other threads.  Two threads each make one  *)
(* backend_add or backend_delete call and a third one a lookup, of which   *)
(* the loop over self._backends.backends is followed: `last` holds, for    *)
(* each registry thread, its position (pc) in its call, and for the        *)
(* lookup the list object it iterates.  A step is one statement, or a      *)
(* group of statements run without another thread in between, which is one *)
(* of the interleavings the interpreter allows.  The list object that      *)
(* _backends_list names is the one sort() works on; a list object that     *)
(* _backends_list no longer names keeps its content.                       *)

RegistryThreads == {1, 2}

Thread(t, pc, op, backend, out) ==
    [last EXCEPT !.m[t] = [pc |-> pc, op |-> op, backend |-> backend, out |-> out]]

(* add, lines 248-257: the two checks *)
BackendAddChecks(t, backend) ==
    /\ last.m[t].pc = "idle"
    /\ LET added == BackendsAdd(_backends_dict, backend)
       IN  last' = IF IsRaise(added) THEN Thread(t, "done", "backend_add", backend, added)
                   ELSE Thread(t, "insert", "backend_add", backend, Pending)
    /\ UNCHANGED <<_models, _keys, _backends_dict, _backends_list, files>>

(* add, line 258: self._backends_dict[backend.identifier] = backend *)
BackendAddInsert(t) ==
    /\ last.m[t].pc = "insert"
    /\ LET backend == last.m[t].backend
       IN  _backends_dict' =
               IF backend.identifier \in Identifiers(_backends_dict)
               THEN [i \in DOMAIN _backends_dict |->
                        IF _backends_dict[i].identifier = backend.identifier
                        THEN backend ELSE _backends_dict[i]]
               ELSE Append(_backends_dict, backend)
    /\ last' = Thread(t, "assign", "backend_add", last.m[t].backend, Pending)
    /\ UNCHANGED <<_models, _keys, _backends_list, files>>

(* delete, line 274: del self._backends_dict[identifier] *)
BackendDeleteDel(t, identifier) ==
    /\ last.m[t].pc = "idle"
    /\ LET deleted == BackendsDelete(_backends_dict, identifier)
       IN  /\ _backends_dict' = IF IsRaise(deleted) THEN _backends_dict ELSE deleted.q
           /\ last' = IF IsRaise(deleted)
                      THEN Thread(t, "done", "backend_delete", NoneV, deleted)
                      ELSE Thread(t, "assign", "backend_delete", NoneV, Pending)
    /\ UNCHANGED <<_models, _keys, _backends_list, files>>

(* _recreate_list, line 302: self._backends_list = list(values()).  A      *)
(* lookup that iterates the list named so far keeps that list.             *)
RecreateListAssign(t) ==
    /\ last.m[t].pc = "assign"
    /\ _backends_list' = _backends_dict
    /\ last' = [Thread(t, "sort", last.m[t].op, last.m[t].backend, Pending)
                  EXCEPT !.r.own = FALSE,
                         !.r.q = IF last.r.own THEN _backends_list ELSE @]
    /\ UNCHANGED <<_models, _keys, _backends_dict, files>>

(* _recreate_list, line 303: self._backends_list.sort(key=priority), in    *)
(* place on the list _backends_list names now                              *)
RecreateListSort(t) ==
    /\ last.m[t].pc = "sort"
    /\ _backends_list' = SortByPriority(_backends_list)
    /\ last' = Thread(t, "done", last.m[t].op, last.m[t].backend, NoneV)
    /\ UNCHANGED <<_models, _keys, _backends_dict, files>>

(* key_data_get, lines 684-686: the key is registered, and the loop takes  *)
(* the list self._backends.backends; `view` and `table` are the ordered    *)
(* view and the identifier table at that moment                            *)
ResolveTakesList ==
    /\ last.r.pc = "idle"
    /\ last' = [last EXCEPT !.r = [pc |-> "loop", own |-> TRUE, q |-> <<>>,
                                   idx |-> 0, seen |-> <<>>,
                                   view |-> _backends_list,
                                   table |-> _backends_dict]]
    /\ UNCHANGED <<_models, _keys, _backends_dict, _backends_list, files>>

(* The for loop takes the next backend from its list, or ends *)
ResolveNext ==
    /\ last.r.pc = "loop"
    /\ LET q == IF last.r.own THEN _backends_list ELSE last.r.q
       IN  last' = IF last.r.idx < Len(q)
                   THEN [last EXCEPT !.r.idx = @ + 1,
                                     !.r.seen = Append(@, q[last.r.idx + 1])]
                   ELSE [last EXCEPT !.r.pc = "done"]
    /\ UNCHANGED <<_models, _keys, _backends_dict, _backends_list, files>>

InitThreads ==
    /\ _models = FixtureModels
    /\ _keys = [f \in KeyNames |-> "PyHieraKeyDict"]
    /\ _backends_dict \in {<<>>, <<Backend("A", 2)>>}
    /\ _backends_list = _recreate_list(_backends_dict)
    /\ files = EmptyFiles
    /\ last = [op |-> "threads", m |-> [t \in RegistryThreads |->
                         [pc |-> "idle", op |-> "none", backend |-> NoneV,
                          out |-> Pending]],
               r |-> [pc |-> "idle", own |-> FALSE, q |-> <<>>, idx |-> 0,
                      seen |-> <<>>, view |-> <<>>, table |-> <<>>]]

NextThreads ==
    \/ \E t \in RegistryThreads, backend \in BackendObjects : BackendAddChecks(t, backend)
    \/ \E t \in RegistryThreads : BackendAddInsert(t)
    \/ \E t \in RegistryThreads, identifier \in BackendIds : BackendDeleteDel(t, identifier)
    \/ \E t \in RegistryThreads : RecreateListAssign(t)
    \/ \E t \in RegistryThreads : RecreateListSort(t)
    \/ ResolveTakesList
    \/ ResolveNext

SpecThreads == InitThreads /\ [][NextThreads]_vars

---------------------------------------------------------------------------
(* Lookups on one backend whose hierarchy is {role}, common, as a          *)
(* hierarchy with a role level is written: under the fact role = "common"  *)
(* both templates expand to the level "common".  The key is bound to the   *)
(* dict schema, to the structured schema with optional fields or to one    *)
(* with required fields, and the levels hold the values of scrap.py: the   *)
(* full `complex` value of its common level and of its prod stage, the     *)
(* partial one of its dev stage, a value with an int for `blarg` and one   *)
(* with a string for `b`.                                                  *)

RoleBackend ==
    [k |-> "backend", identifier |-> "R", priority |-> 1,
     hierarchy |-> <<<<Fact("role")>>, CommonLevel>>, path |-> "R"]

ScrapCommon ==
    DictV([a |-> StrV("common"),
           b |-> DictV([blarg |-> StrV("1"), other |-> StrV("val"),
                        blub |-> ListV(<<StrV("a"), StrV("b"), StrV("c")>>)])])

ScrapDev ==
    DictV([b |-> DictV([blarg |-> StrV("2"),
                        blub |-> ListV(<<StrV("c"), StrV("d")>>)])])

ScrapProd ==
    DictV([a |-> StrV("prod"),
           b |-> DictV([blarg |-> StrV("3"),
                        blub |-> ListV(<<StrV("c"), StrV("d"), StrV("e")>>)])])

(* A value whose `b` is a string where the others hold a map *)
ScrapFlat == DictV([a |-> StrV("common"), b |-> StrV("flat")])

ScrapValues == {ScrapCommon, ScrapDev, ScrapProd, ScrapFlat, HalfValidData}

InitLevels ==
    /\ _models = FixtureModels
    /\ _keys \in [KeyNames -> {"PyHieraKeyDict", "PyHieraKeyComplex",
                               "PyHieraKeyModelComplex"}]
    /\ _backends_dict = <<RoleBackend>>
    /\ _backends_list = _recreate_list(_backends_dict)
    /\ files \in [{"R"} -> [{<<"web">>, <<"common">>} ->
                              {EmptyMap} \cup {[f \in KeyNames |-> v] : v \in ScrapValues}]]
    /\ last = NoCall

NextLevels ==
    \/ last = NoCall /\ \E key \in KeyNames, role \in {"web", "common"},
                            include_sources \in BOOLEAN :
                            KeyDataGet(key, [role |-> role], include_sources)
    \/ last = NoCall /\ \E key \in KeyNames, role \in {"web", "common"},
                            include_sources \in BOOLEAN :
                            KeyDataGetMerge(key, [role |-> role], include_sources)

SpecLevels == InitLevels /\ [][NextLevels]_vars

---------------------------------------------------------------------------
(* Single writes: the key not registered or bound to the dict or the       *)
(* string schema, backend A alone or with B, data directories that hold    *)
(* nothing, a dict, or a common-level file that is no YAML; a write of a   *)
(* dict or a string through either identifier, at any of the three         *)
(* templates (B's hierarchy has no host level), with any subset of the     *)
(* facts.                                                                  *)
InitWrite ==
    /\ _models = FixtureModels
    /\ _keys \in {EmptyMap} \cup
                 {[f \in KeyNames |-> FixtureModels[hiera_key]] :
                     hiera_key \in {"DynamicDict", "SimpleString"}}
    /\ _backends_dict \in {<<Backend("A", 1)>>,
                           <<Backend("A", 1), Backend("B", 2)>>}
    /\ _backends_list = _recreate_list(_backends_dict)
    /\ files \in [Paths -> AsyncLayouts \cup
                              {[l \in Levels |-> IF l = <<"common">>
                                                 THEN NotLoadable ELSE EmptyMap]}]
    /\ last = NoCall

NextWrite ==
    /\ last = NoCall
    /\ \E identifier \in BackendIds, key \in KeyNames, data \in WrittenData,
           level \in {HostLevel, EnvironmentLevel, CommonLevel},
           facts \in FactSets :
           KeyDataAdd(identifier, key, data, level, facts)

SpecWrite == InitWrite /\ [][NextWrite]_vars

---------------------------------------------------------------------------
(* Schema names registered again with another class: from the fixture's    *)
(* schema table and no key, with one backend that holds a string or a dict *)
(* for the key at its common level, the names DynamicDict and SimpleString *)
(* are registered with the dict, the string or the int key class and       *)
(* deleted, the key is added under either name and deleted, and values are *)
(* validated and looked up.                                                *)
RebindClasses == {"PyHieraKeyDict", "PyHieraKeyString", "PyHieraKeyInt"}

InitRebind ==
    /\ _models = FixtureModels
    /\ _keys = EmptyMap
    /\ _backends_dict = <<Backend("B", 1)>>
    /\ _backends_list = _recreate_list(_backends_dict)
    /\ \E data \in WrittenData :
          files = [p \in Paths |-> [l \in Levels |->
                      IF p = "B" /\ l = <<"common">> THEN [f \in KeyNames |-> data]
                                                    ELSE EmptyMap]]
    /\ last = NoCall

NextRebind ==
    \/ ~Returned /\ \E name \in {"DynamicDict", "SimpleString"}, cls \in RebindClasses :
                        KeyModelAdd(name, cls)
    \/ ~Returned /\ \E name \in {"DynamicDict", "SimpleString"} : KeyModelDelete(name)
    \/ ~Returned /\ \E key \in KeyNames, hiera_key \in {"DynamicDict", "SimpleString"} :
                        KeyAdd(key, hiera_key)
    \/ ~Returned /\ \E key \in KeyNames : KeyDelete(key)
    \/ ~Returned /\ \E key \in KeyNames, data \in WrittenData \cup {IntV(7)} :
                        KeyDataValidate(key, data, NoSources)
    \/ ~Returned /\ \E key \in KeyNames, include_sources \in BOOLEAN :
                        KeyDataGet(key, AllFacts, include_sources)

SpecRebind == InitRebind /\ [][NextRebind]_vars

---------------------------------------------------------------------------
(* What the properties below speak of, stated without the resolver's loops *)

IsLookup == last.op \in LookupOps

Returns == IsLookup /\ last.out.k = "data"

Registered == {_backends_dict[i] : i \in DOMAIN _backends_dict}

(* Every template of the backend's hierarchy can be expanded *)
Expandable(b, facts) ==
    \A i \in DOMAIN b.hierarchy : \A j \in DOMAIN b.hierarchy[i] :
        IsFact(b.hierarchy[i][j]) => b.hierarchy[i][j].fact \in DOMAIN facts

(* The backend's i-th hierarchy level under the facts, and its file *)
LevelAt(b, i, facts) ==
    [j \in DOMAIN b.hierarchy[i] |->
        IF IsFact(b.hierarchy[i][j]) THEN facts[b.hierarchy[i][j].fact]
                                     ELSE b.hierarchy[i][j].lit]

FileAt(b, i, facts) == files[b.path][LevelAt(b, i, facts)]

(* The hierarchy positions at which the backend holds the key *)
MatchPositions(b, key, facts) ==
    {i \in DOMAIN b.hierarchy : key \in DOMAIN FileAt(b, i, facts)}

MostSpecific(positions) == CHOOSE i \in positions : \A j \in positions : i <= j

(* The matches of the backends B: backend, hierarchy position (1 is the   *)
(* most specific) and the stored raw value                                 *)
MatchesOf(B, key, facts) ==
    {[backend |-> bi[1], pos |-> bi[2], data |-> FileAt(bi[1], bi[2], facts)[key]] :
        bi \in {x \in B \X (1 .. 3) :
                   /\ x[2] \in DOMAIN x[1].hierarchy
                   /\ key \in DOMAIN FileAt(x[1], x[2], facts)}}

(* Discovery order: backends ascending by priority, then hierarchy order *)
Before(m1, m2) ==
    \/ m1.backend.priority < m2.backend.priority
    \/ m1.backend.priority = m2.backend.priority /\ m1.pos < m2.pos

First(ms) == CHOOSE m \in ms : \A n \in ms \ {m} : Before(m, n)

RECURSIVE InOrder(_)
InOrder(ms) ==
    IF ms = {} THEN <<>>
    ELSE <<First(ms)>> \o InOrder(ms \ {First(ms)})

(* The plain form of a typed value: what model_dump gives for a model *)
Plain(v) == IF v.k = "model" THEN model_dump(v) ELSE v

(* A merge lookup that returned, the plain form of its result, and its     *)
(* contributors: the matches of all registered backends, each with the     *)
(* data it contributes to the fold, which is its stored value as validated *)
(* against the key's schema and brought back to plain form (for the        *)
(* schema `data: dict` the stored value itself).                           *)
MergeReturns == last.op = "key_data_get_merge" /\ last.out.k = "data"

Merged == Plain(last.out.data)

Contributors ==
    {[m EXCEPT !.data = Plain(ModelData(_keys[last.key], m.data))] :
        m \in MatchesOf(Registered, last.key, last.facts)}

(* Within a set of contributors: those that define field f, and what they  *)
(* hold under it                                                           *)
Definers(cs, f) == {c \in cs : f \in DOMAIN c.data.d}

Under(cs, f) == {[c EXCEPT !.data = c.data.d[f]] : c \in Definers(cs, f)}

FieldsOf(cs) == UNION {DOMAIN c.data.d : c \in cs}

AllOfKind(cs, kind) == cs # {} /\ \A c \in cs : c.data.k = kind

IsScalar(v) == v.k \notin {"dict", "list", "set"}

---------------------------------------------------------------------------
(* C1.  First-match precedence: key_data_get on a registered key returns   *)
(* the validated value of the first match, in hierarchy order, of the      *)
(* lowest-numbered-priority registered backend that has a match (every     *)
(* backend of higher precedence having been read without a match); a match *)
(* of a lower-precedence backend is never returned instead, at whatever    *)
(* level it sits.                                                          *)
C1_FirstMatchPrecedence ==
    (last.op = "key_data_get" /\ last.key \in DOMAIN _keys) =>
        \A b \in Registered :
            ( /\ Expandable(b, last.facts)
              /\ MatchPositions(b, last.key, last.facts) # {}
              /\ \A c \in Registered : c.priority < b.priority =>
                    /\ Expandable(c, last.facts)
                    /\ MatchPositions(c, last.key, last.facts) = {} )
            => LET i == MostSpecific(MatchPositions(b, last.key, last.facts))
                   raw == FileAt(b, i, last.facts)[last.key]
                   typed == ModelData(_keys[last.key], raw)
               IN  IF typed = Invalid
                   THEN last.out = PyHieraError(<<"Invalid data for key", last.key>>)
                   ELSE /\ last.out.k = "data"
                        /\ last.out.data = typed
                        /\ last.include_sources =>
                              /\ Len(last.out.sources.q) = 1
                              /\ last.out.sources.q[1].identifier = b.identifier
                              /\ last.out.sources.q[1].data = raw

(* The higher-precedence backend matches at its least specific level only, *)
(* the other backend at a more specific level with another value, and the  *)
(* value returned is the higher-precedence backend's.                      *)
C1_Witness ==
    /\ last.op = "key_data_get" /\ Returns
    /\ Len(_backends_list) = 2
    /\ LET hi == _backends_list[1]
           lo == _backends_list[2]
       IN  /\ hi.priority < lo.priority
           /\ Expandable(hi, last.facts) /\ Expandable(lo, last.facts)
           /\ MatchPositions(hi, last.key, last.facts) = {Len(hi.hierarchy)}
           /\ Len(lo.hierarchy) - 1 \in MatchPositions(lo, last.key, last.facts)
           /\ FileAt(lo, Len(lo.hierarchy) - 1, last.facts)[last.key]
                 # FileAt(hi, Len(hi.hierarchy), last.facts)[last.key]
           /\ last.out.data = FileAt(hi, Len(hi.hierarchy), last.facts)[last.key]

---------------------------------------------------------------------------
(* C7.  Registry invariant: after every sequence of successful and failed  *)
(* backend_add and backend_delete calls the ordered backend view holds     *)
(* exactly the backends of the identifier table, each once, in strictly    *)
(* ascending priority, and no two registered backends share an identifier  *)
(* or a priority.                                                          *)
C7_RegistryInvariant ==
    /\ Len(_backends_list) = Len(_backends_dict)
    /\ {_backends_list[i] : i \in DOMAIN _backends_list} = Registered
    /\ \A i, j \in DOMAIN _backends_list :
          i < j => _backends_list[i].priority < _backends_list[j].priority
    /\ \A i, j \in DOMAIN _backends_dict :
          i # j => /\ _backends_dict[i].identifier # _backends_dict[j].identifier
                   /\ _backends_dict[i].priority # _backends_dict[j].priority

(* Two backends registered in an order that is not their priority order,   *)
(* and then a backend_add that failed                                      *)
C7_Witness ==
    /\ last.op = "backend_add" /\ IsRaise(last.out)
    /\ Len(_backends_dict) = 2
    /\ _backends_dict[1].priority > _backends_dict[2].priority
    /\ _backends_list = <<_backends_dict[2], _backends_dict[1]>>

(* C8.  backend_add with an identifier that is already registered, or with *)
(* a priority that a registered backend uses, fails with PyHieraError and  *)
(* leaves the identifier table and the ordered view as they were.          *)
C8_DuplicateAddRejected ==
    [][ ( /\ last'.op = "backend_add"
          /\ \/ last'.backend.identifier \in {b.identifier : b \in Registered}
             \/ last'.backend.priority \in {b.priority : b \in Registered} )
        => /\ IsRaise(last'.out)
           /\ last'.out.exc = "PyHieraError"
           /\ _backends_dict' = _backends_dict
           /\ _backends_list' = _backends_list ]_vars

(* A new identifier was refused for its priority, the registry keeping its *)
(* one backend                                                             *)
C8_Witness ==
    /\ last.op = "backend_add" /\ IsRaise(last.out)
    /\ Len(_backends_dict) = 1
    /\ last.backend.identifier # _backends_dict[1].identifier
    /\ last.backend.priority = _backends_dict[1].priority
    /\ _backends_list = _backends_dict

(* C9.  No match is an error: key_data_get and key_data_get_merge on a     *)
(* registered key for which every registered backend is read and none      *)
(* holds the key at any level (no backend being registered included) fail  *)
(* with the PyHieraBackendError "No data found", never returning a value;  *)
(* the error differs from the one for a key that is not registered.        *)
C9_NoMatchIsAnError ==
    IsLookup =>
        /\ ( /\ last.key \in DOMAIN _keys
             /\ \A b \in Registered :
                   /\ Expandable(b, last.facts)
                   /\ MatchPositions(b, last.key, last.facts) = {} )
           => last.out = PyHieraBackendError(<<"No data found">>)
        /\ last.key \notin DOMAIN _keys
           => /\ IsRaise(last.out)
              /\ last.out.exc # "PyHieraBackendError"
              /\ last.out.msg # <<"No data found">>

(* A backend is registered and data is stored, but not for the key's       *)
(* lookup: the merge lookup fails with "No data found"                     *)
C9_Witness ==
    /\ last.op = "key_data_get_merge"
    /\ last.out = PyHieraBackendError(<<"No data found">>)
    /\ Registered # {}
    /\ Stored(files) # {}

---------------------------------------------------------------------------
(* C2.  key_data_get_merge over dict-valued matches returns a map in which *)
(* every field defined by any contributing level is present; a field that  *)
(* only one level defines (a less specific or a more specific one) has     *)
(* that level's value; a scalar field that several levels of one backend   *)
(* define has the value of the most specific of them; and the same holds   *)
(* inside nested maps, over two, three or more hierarchy levels.           *)
RECURSIVE C2_Holds(_, _)
C2_Holds(cs, merged) ==
    /\ merged.k = "dict"
    /\ FieldsOf(cs) \subseteq DOMAIN merged.d
    /\ \A f \in FieldsOf(cs) :
          LET here == Under(cs, f)
          IN  /\ Cardinality(here) = 1 => \A c \in here : merged.d[f] = c.data
              /\ ( /\ Cardinality(here) >= 2
                   /\ \A c, d \in here : c.backend = d.backend
                   /\ IsScalar(First(here).data) )
                 => merged.d[f] = First(here).data
              /\ AllOfKind(here, "dict") => C2_Holds(here, merged.d[f])

C2_DictMerge == MergeReturns => C2_Holds(Contributors, Merged)

(* Three levels of one backend contribute: `a` comes from the least        *)
(* specific one only, `timeout` from the most specific of two, and inside  *)
(* the nested map `b` each of the three fields from another level.         *)
C2_Witness ==
    /\ MergeReturns
    /\ _keys[last.key] = "PyHieraKeyDict"
    /\ \E b \in Registered :
          /\ Cardinality(Contributors) = 3
          /\ \A c \in Contributors : c.backend = b
          /\ FileAt(b, 1, last.facts)[last.key] = HostData
          /\ FileAt(b, 2, last.facts)[last.key] = EnvironmentData
          /\ FileAt(b, 3, last.facts)[last.key] = CommonData
    /\ Merged.d["a"] = StrV("prod")
    /\ Merged.d["timeout"] = IntV(60)
    /\ Merged.d["b"].d["blarg"] = StrV("two")
    /\ Merged.d["b"].d["other"] = StrV("host")

(* C3.  key_data_get_merge folds all collected matches in reverse          *)
(* discovery order, so the first match in discovery order is applied last: *)
(* every scalar field has the value of the first match in discovery order  *)
(* that defines it, and every match of every registered backend is folded  *)
(* in (its fields are in the result, and it is among the sources), not     *)
(* only the matches of the first backend that has data.                    *)
RECURSIVE C3_Holds(_, _)
C3_Holds(cs, merged) ==
    /\ FieldsOf(cs) \subseteq DOMAIN merged.d
    /\ \A f \in FieldsOf(cs) :
          LET here == Under(cs, f)
          IN  /\ IsScalar(First(here).data) => merged.d[f] = First(here).data
              /\ AllOfKind(here, "dict") => C3_Holds(here, merged.d[f])

C3_ReverseDiscoveryFold ==
    MergeReturns =>
        /\ C3_Holds(Contributors, Merged)
        /\ last.include_sources =>
              LET order == InOrder(Contributors)
              IN  /\ Len(last.out.sources.q) = Len(order)
                  /\ \A i \in DOMAIN order :
                        /\ last.out.sources.q[i].identifier = order[i].backend.identifier
                        /\ last.out.sources.q[i].level
                              = LevelAt(order[i].backend, order[i].pos, last.facts)
                        /\ last.out.sources.q[i].data = order[i].data

(* Both backends contribute, the higher-precedence one at its two least    *)
(* specific levels and the other one at a more specific level: `a` and     *)
(* `timeout` have the values of the first match in discovery order that    *)
(* defines them, and the elements of the other backend's `tags` are in the *)
(* result.                                                                 *)
C3_Witness ==
    /\ MergeReturns /\ last.include_sources
    /\ _keys[last.key] = "PyHieraKeyDict"
    /\ Len(_backends_list) = 2
    /\ LET hi == _backends_list[1]
           lo == _backends_list[2]
           n == Len(hi.hierarchy)
       IN  /\ MatchPositions(hi, last.key, last.facts) = {n - 1, n}
           /\ FileAt(hi, n - 1, last.facts)[last.key] = EnvironmentData
           /\ FileAt(hi, n, last.facts)[last.key] = CommonData
           /\ MatchPositions(lo, last.key, last.facts) = {Len(lo.hierarchy) - 1}
           /\ FileAt(lo, Len(lo.hierarchy) - 1, last.facts)[last.key] = HostData
    /\ Merged.d["a"] = StrV("prod")
    /\ Merged.d["timeout"] = IntV(30)
    /\ Merged.d["tags"] = SetV({IntV(5), IntV(6), IntV(7)})
    /\ Len(last.out.sources.q) = 3

(* C4.  As claimed: in a merge across backends, of two contributing        *)
(* matches that define the same scalar field the one at the hierarchy      *)
(* position closer to the most specific one always takes precedence, so    *)
(* the field has the value of a match at the most specific position among  *)
(* the positions of the matches that define it, whichever backends hold    *)
(* them.  The fold does not behave so.                                     *)
Specificity(c) ==
    CHOOSE i \in 1 .. 3 :
        <<HostLevel, EnvironmentLevel, CommonLevel>>[i] = c.backend.hierarchy[c.pos]

RECURSIVE C4_Holds(_, _)
C4_Holds(cs, merged) ==
    \A f \in FieldsOf(cs) :
        LET here == Under(cs, f)
            top == {c \in here : \A d \in here : c.backend.priority <= d.backend.priority}
            winner == CHOOSE c \in top : \A d \in top : c.pos <= d.pos
        IN  /\ IsScalar(winner.data) => merged.d[f] = winner.data
            /\ AllOfKind(here, "dict") => C4_Holds(here, merged.d[f])

RECURSIVE ConcatLeastSpecificFirst(_)
ConcatLeastSpecificFirst(ls) ==
    IF ls = {} THEN <<>>
    ELSE ConcatLeastSpecificFirst(ls \ {First(ls)}) \o First(ls).data.q

RECURSIVE C5_Holds(_, _)
C5_Holds(cs, merged) ==
    \A f \in FieldsOf(cs) :
        LET here == Under(cs, f)
        IN  /\ AllOfKind(here, "list")
               => merged.d[f] = ListV(ConcatLeastSpecificFirst(here))
            /\ AllOfKind(here, "dict") => C5_Holds(here, merged.d[f])

RECURSIVE FoldInAnyOrder(_, _)
FoldInAnyOrder(ss, result) ==
    IF ss = {} THEN {result}
    ELSE UNION {FoldInAnyOrder(ss \ {c},
                               _key_data_get_merge(DictV([field |-> c.data]), result)) :
                   c \in ss}

RECURSIVE C6_Holds(_, _)
C6_Holds(cs, merged) ==
    \A f \in FieldsOf(cs) :
        LET here == Under(cs, f)
        IN  /\ AllOfKind(here, "set")
               => /\ merged.d[f] = SetV(UNION {c.data.e : c \in here})
                  /\ FoldInAnyOrder(here, EmptyDict) = {DictV([field |-> merged.d[f]])}
            /\ AllOfKind(here, "dict") => C6_Holds(here, merged.d[f])

C6_SetsUnite == MergeReturns => C6_Holds(Contributors, Merged)

(* Two levels hold sets under `tags` that share an element and, inside the *)
(* nested map, sets under `blub`.                                          *)
C6_Witness ==
    /\ MergeReturns
    /\ _keys[last.key] = "PyHieraKeyDict"
    /\ \E c, d \in Contributors :
          /\ c.backend.priority < d.backend.priority
          /\ FileAt(c.backend, c.pos, last.facts)[last.key] = HostData
          /\ FileAt(d.backend, d.pos, last.facts)[last.key] = CommonData
          /\ Cardinality(Contributors) = 3
          /\ \E e \in Contributors :
                FileAt(e.backend, e.pos, last.facts)[last.key] = EnvironmentData
    /\ Merged.d["tags"] = SetV({IntV(5), IntV(6), IntV(7)})
    /\ Merged.d["b"].d["blub"] = SetV({StrV("red"), StrV("green"), StrV("blue")})

(* The matches a merge lookup can come to collect: those of the backends  *)
(* that are read, every backend up to them in priority order having all    *)
(* the facts its hierarchy needs                                           *)
Collected ==
    MatchesOf({b \in Registered :
                  \A c \in Registered :
                      c.priority <= b.priority => Expandable(c, last.facts)},
              last.key, last.facts)

NotAMap == {m \in Collected : ~IsDict(m.data)}

ExpectedDict == PyHieraBackendError(<<"Invalid data for key, expected dict", last.key>>)

---------------------------------------------------------------------------
(* The calls that take a key and touch its data *)
DataOps == {"key_data_get", "key_data_get_merge", "key_data_add", "key_data_validate"}

KeyNotFound(key) == PyHieraError(<<"Key not found", key>>)

(* C11.  Unregistered key first: every key_data_get, key_data_get_merge,   *)
(* key_data_add and key_data_validate call that names an unregistered key  *)
(* raises PyHieraError 'Key <name> not found' and leaves the files and the *)
(* registries as they were, whatever the facts (too few to expand the      *)
(* hierarchy included) and whether or not the named backend exists.        *)
C11_UnregisteredKeyFirst ==
    [][(last'.op \in DataOps /\ last'.key \notin DOMAIN _keys) =>
           /\ last'.out = KeyNotFound(last'.key)
           /\ UNCHANGED <<_models, _keys, _backends_dict, _backends_list, files>>]_vars

(* A write of an unregistered key to a backend that is not registered, at  *)
(* a level the facts cannot expand; a lookup of it with a registered       *)
(* backend the facts cannot expand is reached as well                      *)
C11_Witness ==
    /\ last.op = "key_data_add"
    /\ last.key \notin DOMAIN _keys
    /\ last.backend_identifier \notin Identifiers(_backends_dict)
    /\ last.level = EnvironmentLevel
    /\ last.facts = EmptyMap
    /\ _backends_dict # <<>>
    /\ last.out = KeyNotFound(last.key)

---------------------------------------------------------------------------
(* The facts a backend's templates name and the call does not supply, as   *)
(* positions <<level, component>> of the hierarchy, and the first of them  *)
MissingAt(b, facts) ==
    {ij \in (1 .. 3) \X (1 .. 2) :
        /\ ij[1] \in DOMAIN b.hierarchy
        /\ ij[2] \in DOMAIN b.hierarchy[ij[1]]
        /\ IsFact(b.hierarchy[ij[1]][ij[2]])
        /\ b.hierarchy[ij[1]][ij[2]].fact \notin DOMAIN facts}

FirstMissingFact(b, facts) ==
    LET ij == CHOOSE x \in MissingAt(b, facts) :
                  \A y \in MissingAt(b, facts) :
                      x[1] < y[1] \/ (x[1] = y[1] /\ x[2] <= y[2])
    IN  b.hierarchy[ij[1]][ij[2]].fact

(* The lookup gets as far as backend b: every registered backend of higher *)
(* precedence can be expanded and, for key_data_get, holds no match, for   *)
(* key_data_get_merge, holds only maps that the key's schema accepts       *)
Consulted(b) ==
    \A h \in Registered : h.priority < b.priority =>
        /\ Expandable(h, last.facts)
        /\ \A m \in MatchesOf({h}, last.key, last.facts) :
              /\ last.op = "key_data_get_merge"
              /\ IsDict(m.data)
              /\ ModelData(_keys[last.key], m.data) # Invalid

(* C12.  Missing fact: a key_data_get or key_data_get_merge call on a      *)
(* registered key that gets as far as a backend one of whose level         *)
(* templates names a fact absent from the supplied facts raises            *)
(* PyHieraBackendError naming that fact (the first one missing, in         *)
(* hierarchy order) and returns no value, whatever the backend's files     *)
(* hold at the levels that can be expanded.                                *)
C12_MissingFactAborts ==
    (IsLookup /\ last.key \in DOMAIN _keys) =>
        \A b \in Registered :
            (~Expandable(b, last.facts) /\ Consulted(b)) =>
                last.out = PyHieraBackendError(
                    <<"missing facts to expand level", FirstMissingFact(b, last.facts)>>)

(* Backend A comes first and holds the key at its host level, which the    *)
(* facts can expand; its environment level cannot be expanded              *)
C12_Witness ==
    /\ last.op = "key_data_get"
    /\ DOMAIN last.facts = {"hostname"}
    /\ \E b \in Registered : b.identifier = "A" /\ b.priority = 1
    /\ last.key \in DOMAIN _keys
    /\ last.key \in DOMAIN files["A"][<<"host", "web01">>]
    /\ last.out = PyHieraBackendError(<<"missing facts to expand level", "environment">>)

---------------------------------------------------------------------------
(* A match as the backend reports it: PyHieraModelBackendData *)
AsSource(m) ==
    PyHieraModelBackendData(m.backend.identifier, m.backend.priority, last.key,
                            LevelAt(m.backend, m.pos, last.facts), m.data)

(* The outcome of the same lookup made with the other include_sources *)
WithOtherSources ==
    IF last.op = "key_data_get"
    THEN key_data_get(_keys, _backends_list, files, last.key, last.facts,
                      ~last.include_sources)
    ELSE key_data_get_merge(_keys, _backends_list, files, last.key, last.facts,
                            ~last.include_sources)

(* C13.  Provenance: with include_sources true, a key_data_get that        *)
(* returns carries exactly one source, the winning match (the first match  *)
(* in discovery order, with its stored value), and a key_data_get_merge    *)
(* that returns carries every contributing match exactly once in discovery *)
(* order (backends by ascending priority, within a backend the most        *)
(* specific level first), each with the data it contributed; with          *)
(* include_sources false the sources are None.  The data of the result is  *)
(* the same under both values of include_sources.                          *)
C13_Provenance ==
    Returns =>
        /\ last.include_sources <=> last.out.sources.k = "list"
        /\ ~last.include_sources <=> last.out.sources = NoSources
        /\ WithOtherSources.k = "data" /\ WithOtherSources.data = last.out.data
        /\ (last.include_sources /\ last.op = "key_data_get") =>
              LET readable == {b \in Registered : Expandable(b, last.facts)}
              IN  last.out.sources.q
                      = <<AsSource(First(MatchesOf(readable, last.key, last.facts)))>>
        /\ (last.include_sources /\ last.op = "key_data_get_merge") =>
              LET order == InOrder(Contributors)
              IN  /\ last.out.sources.q = [i \in DOMAIN order |-> AsSource(order[i])]
                  /\ Len(order) = Cardinality(Contributors)
                  /\ \A i, j \in DOMAIN order :
                        i < j => /\ order[i] # order[j]
                                 /\ Before(order[i], order[j])

(* A merge with sources over one backend's environment and common levels:  *)
(* two sources, the environment level's first                              *)
C13_Witness ==
    /\ MergeReturns /\ last.include_sources
    /\ Len(last.out.sources.q) = 2
    /\ last.out.sources.q[1].identifier = last.out.sources.q[2].identifier
    /\ last.out.sources.q[1].level = <<"environment", "prod">>
    /\ last.out.sources.q[2].level = <<"common">>
    /\ WithOtherSources.k = "data" /\ WithOtherSources.sources = NoSources

---------------------------------------------------------------------------
(* A typed value as a key class's schema declares it *)
IsOptionalStr(v) == v.k \in {"none", "str"}

ConformsLevelB(v) ==
    /\ v.k = "model"
    /\ DOMAIN v.m = {"blarg", "other", "blub"}
    /\ IsOptionalStr(v.m["blarg"]) /\ IsOptionalStr(v.m["other"])
    /\ \/ v.m["blub"].k = "none"
       \/ v.m["blub"].k = "set" /\ \A x \in v.m["blub"].e : x.k = "str"

Conforms(cls, v) ==
    CASE cls = "PyHieraKeyString"  -> v.k = "str"
      [] cls = "PyHieraKeyInt"     -> v.k = "int"
      [] cls = "PyHieraKeyDict"    -> v.k = "dict"
      [] cls = "PyHieraKeyComplex" ->
            /\ v.k = "model"
            /\ DOMAIN v.m = {"a", "b"}
            /\ IsOptionalStr(v.m["a"])
            /\ v.m["b"].k = "none" \/ ConformsLevelB(v.m["b"])
      [] OTHER -> FALSE

(* C14.  key_data_validate: on a registered key the call either returns a  *)
(* value that conforms to the key's schema or raises the one PyHieraError  *)
(* 'Invalid data for key <name>'; it raises 'Key <name> not found' if and  *)
(* only if the key is not registered.  A value of which only a part is     *)
(* valid is rejected as a whole.                                           *)
C14_ValidateOutcomes ==
    last.op = "key_data_validate" =>
        /\ last.out = KeyNotFound(last.key) <=> last.key \notin DOMAIN _keys
        /\ last.key \in DOMAIN _keys =>
              \/ last.out = PyHieraError(<<"Invalid data for key", last.key>>)
              \/ /\ last.out.k = "data"
                 /\ Conforms(_keys[last.key], last.out.data)
                 /\ Plain(last.out.data) = last.data
                        \/ _keys[last.key] = "PyHieraKeyComplex"
        /\ (last.key \in DOMAIN _keys /\ Conforms(_keys[last.key], last.data))
              => last.out.k = "data" /\ last.out.data = last.data
        /\ last.data = HalfValidData =>
              (IsRaise(last.out) \/ _keys[last.key] = "PyHieraKeyDict")

(* Both keys are registered; one is validated against the structured       *)
(* schema with a value whose nested field is wrong, and rejected           *)
C14_Witness ==
    /\ last.op = "key_data_validate"
    /\ DOMAIN _keys = RegistryKeys
    /\ _keys[last.key] = "PyHieraKeyComplex"
    /\ last.data = HalfValidData
    /\ last.out = PyHieraError(<<"Invalid data for key", last.key>>)

---------------------------------------------------------------------------
(* C15.  key_add(key, hiera_key): with a name that is not in the schema    *)
(* table the call raises PyHieraError 'Invalid key model <name>' and the   *)
(* key table is as before (a binding of the key is kept, an unregistered   *)
(* key stays unregistered); with a name of the table the key is bound to   *)
(* that name's key class, whatever it was bound to before, and every other *)
(* key keeps its binding.  Nothing else changes.                           *)
C15_KeyAdd ==
    [][last'.op = "key_add" =>
          /\ IF last'.hiera_key \notin DOMAIN _models
             THEN /\ last'.out = PyHieraError(<<"Invalid key model", last'.hiera_key>>)
                  /\ _keys' = _keys
             ELSE /\ last'.out = NoneV
                  /\ DOMAIN _keys' = DOMAIN _keys \cup {last'.key}
                  /\ _keys'[last'.key] = _models[last'.hiera_key]
                  /\ \A f \in DOMAIN _keys \ {last'.key} : _keys'[f] = _keys[f]
          /\ UNCHANGED <<_models, _backends_dict, _backends_list, files>>]_vars

(* A key_add with a name that has been deleted from the schema table, for  *)
(* a key that is bound: the binding is still there                         *)
C15_Witness ==
    /\ last.op = "key_add"
    /\ last.hiera_key = "DynamicDict"
    /\ last.out = PyHieraError(<<"Invalid key model", "DynamicDict">>)
    /\ last.key \in DOMAIN _keys
    /\ _keys[last.key] = "PyHieraKeyDict"
    /\ DOMAIN _keys = RegistryKeys

---------------------------------------------------------------------------
DeleteOps == {"key_delete", "key_model_delete", "backend_delete"}

IsPyHieraError(out) == out.k = "raise" /\ out.exc = "PyHieraError"

Without(f, x) == [y \in DOMAIN f \ {x} |-> f[y]]

(* C16.  Deletes: key_delete of a key, key_model_delete of a schema name   *)
(* and backend_delete of an identifier that is not registered raise        *)
(* PyHieraError and leave the key table, the schema table, the backend     *)
(* table and the ordered backend view as they were; a delete of a          *)
(* registered entry removes that entry from its registry (for a backend,   *)
(* from the table and from the ordered view, the others keeping their      *)
(* order) and changes nothing else.                                        *)
C16_Deletes ==
    [][last'.op \in DeleteOps =>
          LET op == last'.op
              known == CASE op = "key_delete" -> last'.key \in DOMAIN _keys
                         [] op = "key_model_delete" -> last'.name \in DOMAIN _models
                         [] op = "backend_delete" ->
                                last'.identifier \in Identifiers(_backends_dict)
              others(b) == b.identifier # last'.identifier
          IN  /\ UNCHANGED files
              /\ ~known =>
                    /\ IsPyHieraError(last'.out)
                    /\ UNCHANGED <<_models, _keys, _backends_dict, _backends_list>>
              /\ known =>
                    /\ last'.out = NoneV
                    /\ _keys' = IF op = "key_delete"
                                THEN Without(_keys, last'.key) ELSE _keys
                    /\ _models' = IF op = "key_model_delete"
                                  THEN Without(_models, last'.name) ELSE _models
                    /\ _backends_dict' = IF op = "backend_delete"
                                         THEN SelectSeq(_backends_dict, others)
                                         ELSE _backends_dict
                    /\ _backends_list' = IF op = "backend_delete"
                                         THEN SelectSeq(_backends_list, others)
                                         ELSE _backends_list]_vars

(* A backend_delete of an identifier that is not registered, with the      *)
(* other backend, both keys and an added schema registered                 *)
C16_Witness ==
    /\ last.op = "backend_delete"
    /\ IsPyHieraError(last.out)
    /\ Len(_backends_list) = 1 /\ _backends_list = _backends_dict
    /\ DOMAIN _keys = RegistryKeys
    /\ "Complex" \in DOMAIN _models

---------------------------------------------------------------------------
(* C19.  The keys and key_models properties return copies: the dict        *)
(* returned has the registry's entries, and an entry added to, deleted     *)
(* from or rebound in it by the caller changes neither the key table nor   *)
(* the schema table, so that every validation, schema lookup and           *)
(* first-match lookup made afterwards has the outcome it would have had    *)
(* without the change.                                                     *)
C19_PropertiesReturnCopies ==
    [][last'.op \in PropertyOps =>
          /\ UNCHANGED <<_models, _keys, _backends_dict, _backends_list, files>>
          /\ ~last'.changed =>
                last'.out.d = IF last'.op = "keys" THEN _keys ELSE _models
          /\ \A key \in RegistryKeys :
                /\ \A data \in ValidatedValues :
                      validate(_keys', key, data, NoSources)
                          = validate(_keys, key, data, NoSources)
                /\ key_data_get(_keys', _backends_list', files', key, AllFacts, TRUE)
                      = key_data_get(_keys, _backends_list, files, key, AllFacts, TRUE)
          /\ \A name \in ModelNames :
                KeyModelsGet(_models', name) = KeyModelsGet(_models, name)]_vars

(* The caller has added a key to the dict that `keys` returned and deleted *)
(* the registered one from it; the key table still has the registered key  *)
(* only                                                                    *)
C19_Witness ==
    /\ last.op = "keys" /\ last.changed
    /\ DOMAIN _keys = {"config"}
    /\ DOMAIN last.out.d = {"db_host"}
    /\ _keys["config"] = "PyHieraKeyDict"

---------------------------------------------------------------------------
(* The files with the directories of the backends that are not registered  *)
(* emptied                                                                 *)
RegisteredFilesOnly ==
    [p \in Paths |-> IF p \in Identifiers(_backends_dict) THEN files[p]
                     ELSE [l \in Levels |-> EmptyMap]]

(* C20.  After backend_delete: a backend_delete that returns leaves the    *)
(* identifier in neither the table nor the ordered view, and the ordered   *)
(* view is the old one without that backend, the others in the same order. *)
(* As long as an identifier is not registered, every key_data_add that     *)
(* names it raises a PyHieraError and writes nothing, and every            *)
(* key_data_get and key_data_get_merge has the outcome it would have with  *)
(* that backend's files empty: a key that only unregistered backends hold  *)
(* is not found.                                                           *)
C20_DeletedBackendIsGone ==
    [][/\ (last'.op = "backend_delete" /\ last'.out = NoneV) =>
             /\ last'.identifier \notin Identifiers(_backends_dict')
             /\ \A i \in DOMAIN _backends_list' :
                   _backends_list'[i].identifier # last'.identifier
             /\ _backends_list'
                   = SelectSeq(_backends_list,
                               LAMBDA b : b.identifier # last'.identifier)
       /\ (/\ last'.op = "key_data_add"
           /\ last'.backend_identifier \notin Identifiers(_backends_dict)) =>
             /\ IsPyHieraError(last'.out)
             /\ files' = files
       /\ last'.op = "key_data_get" =>
             last'.out = key_data_get(_keys, _backends_list, RegisteredFilesOnly,
                                      last'.key, last'.facts, last'.include_sources)
       /\ last'.op = "key_data_get_merge" =>
             last'.out = key_data_get_merge(_keys, _backends_list, RegisteredFilesOnly,
                                            last'.key, last'.facts,
                                            last'.include_sources)
       /\ (/\ last'.op \in LookupOps
           /\ last'.key \in DOMAIN _keys
           /\ \A b \in Registered :
                 /\ Expandable(b, last'.facts)
                 /\ MatchPositions(b, last'.key, last'.facts) = {}) =>
             last'.out = PyHieraBackendError(<<"No data found">>)]_vars

(* Backend B was written to and deleted, backend A holds nothing: the key  *)
(* that B's file still holds is not found                                  *)
C20_Witness ==
    /\ IsLookup
    /\ last.key \in DOMAIN _keys
    /\ last.facts = AllFacts
    /\ Identifiers(_backends_dict) = {"A"}
    /\ last.key \in DOMAIN files["B"][<<"common">>]
    /\ last.out = PyHieraBackendError(<<"No data found">>)

---------------------------------------------------------------------------
(* What key_data_get resolves the key to, in the files fs under the facts  *)
Resolved(fs, key, facts) ==
    key_data_get(_keys, _backends_list, fs, key, facts, FALSE)

(* The file of the backend's environment level under the facts *)
EnvironmentFile(fs, identifier, facts) ==
    fs[identifier][<<"environment", facts["environment"]>>]

(* C17.  Write/resolve round trip on a backend with the hierarchy          *)
(* environment/{environment}, common: after a key_data_add that returns,   *)
(* of a value at the environment level under given facts, key_data_get     *)
(* under those facts returns that value, and what key_data_get returns     *)
(* under the other facts is what it returned before; after a write at the  *)
(* common level, key_data_get under facts whose environment level holds    *)
(* nothing for the key returns the value written.  The value returned is   *)
(* that of the latest write to the level.  key_data_get raises 'No data    *)
(* found' only if the common level holds nothing for the key.              *)
C17_WriteResolveRoundTrip ==
    [][/\ (last'.op = "key_data_add" /\ last'.out = NoneV) =>
             LET key == last'.key
                 b == last'.backend_identifier
                 got == Resolved(files', key, last'.facts)
             IN  /\ last'.level = EnvironmentLevel =>
                       /\ got.k = "data" /\ got.data = last'.data
                       /\ \A other \in RoundTripFacts \ {last'.facts} :
                             Resolved(files', key, other) = Resolved(files, key, other)
                 /\ last'.level = CommonLevel =>
                       \A facts \in RoundTripFacts :
                           key \notin DOMAIN EnvironmentFile(files', b, facts) =>
                               /\ Resolved(files', key, facts).k = "data"
                               /\ Resolved(files', key, facts).data = last'.data
       /\ (last'.op = "key_data_get"
              /\ last'.out = PyHieraBackendError(<<"No data found">>)) =>
             \A i \in DOMAIN _backends_list :
                 last'.key \notin DOMAIN files[_backends_list[i].path][<<"common">>]]_vars

---------------------------------------------------------------------------
Folded == last.op = "fold" /\ ~IsRaise(last.out)

(* The fold on objects computes the values of the fold on values *)
FoldAgrees ==
    last.op = "fold" =>
        LET points == [n \in DOMAIN last.data_points |->
                          [data |-> last.data_points[n]]]
            merged == FoldReversed(points, Len(points), EmptyDict)
        IN  IF IsRaise(merged) THEN IsRaise(last.out)
            ELSE ~IsRaise(last.out) /\ ValueOf(last.out.obj) = merged

(* The merge changes no object of a data point in place: after the fold    *)
(* every data point holds the data it held before, the least specific      *)
(* one's lists and sets included                                           *)
ContributorsUnchanged == Folded => last.out.changed \subseteq {0}

(* C18.  No aliasing: after the fold of key_data_get_merge no object of a  *)
(* data point has been changed in place (every contributing match holds    *)
(* the data it held before, the least specific one's lists and sets not    *)
(* extended), and the accumulator holds no list, set or dict of a data     *)
(* point, at any depth, so that a change made to the merged result changes *)
(* no contributor's data.                                                  *)
C18_NoAliasing ==
    Folded =>
        /\ last.out.changed \subseteq {0}
        /\ OwnersIn(last.out.obj) \subseteq {0}

---------------------------------------------------------------------------
(* A first-match lookup of the asynchronous resolver, the backends it had  *)
(* read when it ended, and what a backend answers by itself                *)
AsyncGet == last.op = "async_key_data_get"

AsyncGetDone == AsyncGet /\ last.pc = "done" /\ last.key \in DOMAIN last.keys0

Silent(b) ==
    Expandable(b, last.facts) /\ MatchPositions(b, last.key, last.facts) = {}

(* C21.  First-match resolve reads the backends one at a time in ascending *)
(* priority: every step of the call reads at most one backend, the         *)
(* backends read are the first ones of the priority-ordered list, each one *)
(* read only after every backend before it had returned without a match,   *)
(* and no backend after the first one that returns a match (or fails) is   *)
(* read or has its templates expanded: the outcome is the one of that      *)
(* backend alone, whatever facts the backends after it lack, and the       *)
(* synchronous lookup gives on all backends what it gives on the backends  *)
(* up to that one.                                                         *)
C21_OneBackendAtATime ==
    /\ [](AsyncGet =>
            LET n == Len(last.reads)
                backends == last.backends
            IN  /\ n <= Len(backends)
                /\ \A j \in 1 .. n : last.reads[j] = backends[j].identifier
                /\ \A j \in 1 .. n : \A h \in 1 .. (j - 1) :
                      /\ backends[h].priority < backends[j].priority
                      /\ Silent(backends[h])
                /\ AsyncGetDone =>
                      /\ n < Len(backends) => ~Silent(backends[n])
                      /\ (n > 0 /\ ~Expandable(backends[n], last.facts))
                            => /\ IsRaise(last.out)
                               /\ last.out.msg[1] = "missing facts to expand level"
                      /\ (n > 0 /\ Expandable(backends[n], last.facts)
                                /\ ~Silent(backends[n]))
                            => LET b == backends[n]
                                   pos == MostSpecific(
                                              MatchPositions(b, last.key, last.facts))
                                   raw == FileAt(b, pos, last.facts)[last.key]
                               IN  last.out =
                                       validate(_keys, last.key, raw,
                                           IF last.include_sources
                                           THEN Sources(<<PyHieraModelBackendData(
                                                    b.identifier, b.priority, last.key,
                                                    LevelAt(b, pos, last.facts), raw)>>)
                                           ELSE NoSources)
                      /\ key_data_get(last.keys0, backends, files, last.key,
                                      last.facts, last.include_sources)
                            = key_data_get(last.keys0, SubSeq(backends, 1, n), files,
                                           last.key, last.facts, last.include_sources))
    /\ [][(AsyncGet /\ last'.op = last.op)
             => Len(last'.reads) <= Len(last.reads) + 1]_vars

(* The backend of higher precedence answered, and the other backend, which *)
(* lacks a fact its hierarchy needs, was not read                          *)
C21_Witness ==
    /\ AsyncGetDone
    /\ last.out.k = "data"
    /\ Len(last.backends) = 2
    /\ last.reads = <<last.backends[1].identifier>>
    /\ ~Expandable(last.backends[2], last.facts)

---------------------------------------------------------------------------
Ascending(q) == \A i, j \in DOMAIN q : i < j => q[i].priority < q[j].priority

Elements(q) == {q[i] : i \in DOMAIN q}

(* C22.  With backend_add and backend_delete running in threads next to a  *)
(* lookup: the list the lookup takes is in ascending priority (it is never *)
(* the ordered view between its reassignment and its sort) and holds the   *)
(* backends of the identifier table; the backends the loop goes through    *)
(* are those of that list, each once, in ascending priority; and no two    *)
(* registered backends have the same priority.  The registry does not      *)
(* behave so.                                                              *)
C22_NoHalfRebuiltView ==
    /\ last.r.pc # "idle" =>
          /\ Ascending(last.r.view)
          /\ Elements(last.r.view) = Elements(last.r.table)
    /\ last.r.pc = "done" =>
          /\ Ascending(last.r.seen)
          /\ Elements(last.r.seen) = Elements(last.r.view)
    /\ \A i, j \in DOMAIN _backends_dict :
          i # j => _backends_dict[i].priority # _backends_dict[j].priority

---------------------------------------------------------------------------
(* A merge lookup on a registered key, its matches in discovery order, and *)
(* the fold of values in that order                                        *)
MergeCall == last.op = "key_data_get_merge" /\ last.key \in DOMAIN _keys

Matches == InOrder(MatchesOf(Registered, last.key, last.facts))

RECURSIVE FoldOf(_, _)
FoldOf(values, n) ==
    IF n > Len(values) THEN EmptyDict
    ELSE _key_data_get_merge(values[n], FoldOf(values, n + 1))

InvalidData == PyHieraError(<<"Invalid data for key", last.key>>)

---------------------------------------------------------------------------
(* An asynchronous call that has completed with no registry mutation       *)
(* interleaved                                                             *)
AsyncDoneAlone ==
    /\ last.op \in AsyncLookupOps \cup {"async_key_data_add"}
    /\ last.pc = "done"
    /\ last.changes = 0

(* C24.  PyHieraAsync and PyHieraSync are equivalent: an asynchronous      *)
(* key_data_get, key_data_get_merge or key_data_add that ran with no       *)
(* registry mutation interleaved ends with the outcome (data and           *)
(* provenance, or error) that the synchronous method gives on the keys,    *)
(* backends and stored data it started from, and leaves the stored data    *)
(* the synchronous method leaves.                                          *)
C24_SyncAsyncEquivalent ==
    AsyncDoneAlone =>
        CASE last.op = "async_key_data_get" ->
                /\ last.out = key_data_get(last.keys0, last.backends, last.files0,
                                           last.key, last.facts,
                                           last.include_sources)
                /\ files = last.files0
          [] last.op = "async_key_data_get_merge" ->
                /\ last.out = key_data_get_merge(last.keys0, last.backends,
                                                 last.files0, last.key,
                                                 last.facts, last.include_sources)
                /\ files = last.files0
          [] last.op = "async_key_data_add" ->
                LET added == key_data_add(last.keys0, _backends_dict, last.files0,
                                          last.backend_identifier, last.key,
                                          last.data, last.level, last.facts)
                IN  IF IsRaise(added)
                    THEN last.out = added /\ files = last.files0
                    ELSE last.out = NoneV /\ files = added.fs

(* A merge that consulted two backends and returned data with provenance *)
C24_Witness ==
    /\ AsyncDoneAlone
    /\ last.op = "async_key_data_get_merge"
    /\ Len(last.reads) = 2
    /\ last.include_sources
    /\ last.out.k = "data"
    /\ last.out.sources.k = "list"
    /\ Len(last.out.sources.q) >= 2

---------------------------------------------------------------------------
(* The check of key_data_add that fails first on the state before the      *)
(* call: the error it raises, or NoneV when all four pass                  *)
FirstFailedCheck(call) ==
    IF call.key \notin DOMAIN _keys
    THEN PyHieraError(<<"Key not found", call.key>>)
    ELSE IF ModelData(_keys[call.key], call.data) = Invalid
    THEN PyHieraError(<<"Invalid data for key", call.key>>)
    ELSE IF call.backend_identifier \notin Identifiers(_backends_dict)
    THEN PyHieraError(<<"Backend not found", call.backend_identifier>>)
    ELSE LET backend == BackendsGet(_backends_dict, call.backend_identifier)
         IN  IF \A i \in DOMAIN backend.hierarchy : backend.hierarchy[i] # call.level
             THEN PyHieraBackendError(<<"Level not found in hierarchy">>)
             ELSE IF \E i \in DOMAIN call.level :
                        /\ IsFact(call.level[i])
                        /\ call.level[i].fact \notin DOMAIN call.facts
             THEN _expand_level(call.level, call.facts)
             ELSE NoneV

(* C25.  key_data_add checks, in this order, that the key is registered    *)
(* and the data conforms to its schema, that the backend identifier is     *)
(* registered, that the level is one of the backend's templates, and that  *)
(* the facts the template names are supplied.  The first check that fails  *)
(* decides the error, which is of the PyHieraError family, and no file of  *)
(* any backend changes; when all pass, the only file that can differ after *)
(* the call is the expanded level in the backend's directory, which then   *)
(* holds the key (a target file that is no YAML stops the call before the  *)
(* write).                                                                 *)
C25_WriteChecksInOrder ==
    [][last'.op = "key_data_add" =>
          LET call == last'
              failed == FirstFailedCheck(call)
          IN  IF failed # NoneV
              THEN /\ call.out = failed
                   /\ call.out.exc \in {"PyHieraError", "PyHieraBackendError"}
                   /\ files' = files
              ELSE LET backend == BackendsGet(_backends_dict, call.backend_identifier)
                       expanded == _expand_level(call.level, call.facts).path
                   IN  /\ \A p \in DOMAIN files : \A l \in DOMAIN files[p] :
                              (p # backend.path \/ l # expanded)
                                  => files'[p][l] = files[p][l]
                       /\ IF files[backend.path][expanded] = NotLoadable
                          THEN call.out = YAMLError /\ files' = files
                          ELSE /\ call.out = NoneV
                               /\ call.key \in DOMAIN files'[backend.path][expanded]
    ]_vars

(* A write that passes the first three checks and names a fact that is not *)
(* supplied, with data stored before it                                    *)
C25_Witness ==
    /\ last.op = "key_data_add"
    /\ last.key \in DOMAIN _keys
    /\ ModelData(_keys[last.key], last.data) # Invalid
    /\ last.backend_identifier = "B"
    /\ last.backend_identifier \in Identifiers(_backends_dict)
    /\ last.level = EnvironmentLevel
    /\ last.facts = [hostname |-> "web01"]
    /\ last.out.k = "raise"
    /\ files["B"][<<"common">>] # EmptyMap

---------------------------------------------------------------------------
(* C26.  The deep merge is total: a key_data_get_merge whose matches all   *)
(* pass the dict guard and the validation returns, or fails with an error  *)
(* of the PyHieraError family; no fold of such matches raises anything     *)
(* else, whatever kinds of value the same field holds at two levels.       *)
C26_MergeIsTotal ==
    (/\ MergeCall
     /\ \A i \in DOMAIN Matches :
           /\ IsDict(Matches[i].data)
           /\ ModelData(_keys[last.key], Matches[i].data) # Invalid)
        => (last.out.k = "raise"
               => last.out.exc \in {"PyHieraError", "PyHieraBackendError"})

---------------------------------------------------------------------------
(* The places that hold the key under the facts of the call: backend and   *)
(* concrete level                                                          *)
Places ==
    {<<m.backend.identifier, LevelAt(m.backend, m.pos, last.facts)>> :
        m \in MatchesOf(Registered, last.key, last.facts)}

(* C27.  Each stored value contributes to a merge once: the provenance of  *)
(* a merge that returns has one entry for a place, also when two templates *)
(* of the hierarchy expand to the same level, and when a single place      *)
(* holds the key the result is the value stored there in normalised form,  *)
(* its lists as they are stored.                                           *)
C27_EachValueContributesOnce ==
    MergeReturns =>
        /\ last.out.sources.k = "list" =>
              \A i, j \in DOMAIN last.out.sources.q :
                  (/\ last.out.sources.q[i].identifier = last.out.sources.q[j].identifier
                   /\ last.out.sources.q[i].level = last.out.sources.q[j].level)
                      => i = j
        /\ Cardinality(Places) = 1 =>
              \A m \in MatchesOf(Registered, last.key, last.facts) :
                  Merged = Plain(ModelData(_keys[last.key], m.data))

---------------------------------------------------------------------------
(* The matches, in discovery order, whose stored value defines the field *)
StoredDefiners(f) == {i \in DOMAIN Matches : f \in DOMAIN Matches[i].data.d}

(* C28.  A field that a more specific contributor does not define never    *)
(* overrides a less specific value: in a merge that returns, a field that  *)
(* holds a string at every level that defines it has, in the result, the   *)
(* string of the most specific level that defines it, for every schema.    *)
C28_UndefinedNeverOverrides ==
    MergeReturns =>
        \A f \in UNION {DOMAIN Matches[i].data.d : i \in DOMAIN Matches} :
            (\A i \in StoredDefiners(f) : Matches[i].data.d[f].k = "str")
                => LET first == CHOOSE i \in StoredDefiners(f) :
                                    \A j \in StoredDefiners(f) : i <= j
                   IN  /\ f \in DOMAIN Merged.d
                       /\ Merged.d[f] = Matches[first].data.d[f]

---------------------------------------------------------------------------
(* C29.  A key keeps the schema it was bound to by key_add: every          *)
(* key_model_add and key_model_delete step, a re-registration of a name    *)
(* with another class included, leaves the key table as it is, so every    *)
(* key stays registered with its class; the binding of a key changes in    *)
(* key_add and key_delete steps only, and a key_add that returns binds the *)
(* key to the class registered under the name at that moment; and          *)
(* key_data_validate and key_data_get validate against the class the key   *)
(* table holds, whatever the schema table says now.                        *)
C29_KeyKeepsItsSchema ==
    [][/\ last'.op \in {"key_model_add", "key_model_delete"} => _keys' = _keys
       /\ _keys' # _keys => last'.op \in {"key_add", "key_delete"}
       /\ (last'.op = "key_add" /\ last'.out = NoneV)
             => /\ last'.key \in DOMAIN _keys'
                /\ _keys'[last'.key] = _models[last'.hiera_key]
       /\ (last'.op = "key_data_validate" /\ last'.key \in DOMAIN _keys)
             => LET typed == ModelData(_keys[last'.key], last'.data)
                IN  IF typed = Invalid
                    THEN last'.out = PyHieraError(<<"Invalid data for key", last'.key>>)
                    ELSE last'.out.k = "data" /\ last'.out.data = typed
       /\ (last'.op = "key_data_get" /\ last'.key \in DOMAIN _keys)
             => LET m == First(MatchesOf(Registered, last'.key, last'.facts))
                    typed == ModelData(_keys[last'.key], m.data)
                IN  IF typed = Invalid
                    THEN last'.out = PyHieraError(<<"Invalid data for key", last'.key>>)
                    ELSE last'.out.k = "data" /\ last'.out.data = typed
      ]_vars

(* The key was added under a name that has since been registered with      *)
(* another class, and a value that only the old class accepts validates    *)
C29_Witness ==
    /\ last.op = "key_data_validate"
    /\ last.key \in DOMAIN _keys
    /\ _keys[last.key] = "PyHieraKeyDict"
    /\ "DynamicDict" \in DOMAIN _models
    /\ _models["DynamicDict"] = "PyHieraKeyInt"
    /\ "SimpleString" \in DOMAIN _models
    /\ _models["SimpleString"] = "PyHieraKeyString"
    /\ last.data = CommonData
    /\ last.out.k = "data"

---------------------------------------------------------------------------
(* An asynchronous lookup that passed the key check and has completed *)
AsyncLookupDone ==
    /\ last.op \in AsyncLookupOps
    /\ last.pc = "done"
    /\ last.key \in DOMAIN last.keys0

(* C30.  An asynchronous lookup is atomic with respect to the registry     *)
(* mutations made while it is suspended: once it has passed the key check, *)
(* it ends with the outcome that the key table and the backends of its     *)
(* start give (exactly those backends consulted, every contributor and the *)
(* result validated against the schema bound at the start), and never with *)
(* "Key not found".                                                        *)
C30_AsyncLookupAtomic ==
    AsyncLookupDone =>
        /\ last.out # PyHieraError(<<"Key not found", last.key>>)
        /\ last.out = IF last.op = "async_key_data_get"
                      THEN key_data_get(last.keys0, last.backends, last.files0,
                                        last.key, last.facts, last.include_sources)
                      ELSE key_data_get_merge(last.keys0, last.backends,
                                              last.files0, last.key, last.facts,
                                              last.include_sources)

===========================================================================
